---- MODULE Spec2Model ----
(***************************************************************************)
(* A model of noty (tackeyy/noty): the retry policy (retry.ts), and the    *)
(* document client (client.ts) working against the document store.         *)
(*                                                                         *)
(* Strings whose characters matter are sequences of one-character strings. *)
(* An optional value is a sequence of length 0 (absent) or 1 (present).    *)
(***************************************************************************)
EXTENDS Integers, Sequences, FiniteSets, TLC

VARIABLES
    \* ---- withRetry (one invocation) ----
    rOpts,        \* the opts argument: each field absent or given
    rPc,          \* "idle" | "call" | "sleep" | "resolved" | "rejected"
    attempt,      \* the loop counter of withRetry
    lastError,    \* withRetry's lastError (absent before the first failure)
    pendingDelay, \* the delay handed to setTimeout while sleeping
    invocations,  \* how many times fn was invoked
    thrown,       \* the values fn rejected with, in order
    chosen,       \* retryAfterMs ?? exponentialDelay of each retry, in order
    waited,       \* the delays of the timers that fired, in order
    returned,     \* absent, or the value fn resolved with
    outcome,      \* absent, or the value resolved with / the value rejected with
    \* ---- the document store and the client's calls ----
    store,        \* the store: the children of each parent, the page's properties
    store0,       \* the store as it was before the first call
    calls         \* the client's calls, each with its arguments, position and locals

retryVars == <<rOpts, rPc, attempt, lastError, pendingDelay, invocations,
               thrown, chosen, waited, returned, outcome>>

clientVars == <<store, store0, calls>>

vars == <<retryVars, clientVars>>

(***************************************************************************)
(* Generic helpers                                                         *)
(***************************************************************************)
Min(a, b) == IF a <= b THEN a ELSE b

\* the least element of a non-empty set of numbers
Least(set) == CHOOSE j \in set : \A k \in set : j <= k

None == <<>>
Some(x) == <<x>>

RECURSIVE SumSeq(_)
SumSeq(s) == IF s = <<>> THEN 0 ELSE Head(s) + SumSeq(Tail(s))

(***************************************************************************)
(* retry.ts                                                                *)
(***************************************************************************)

\* Bound of the model: the largest maxRetries given explicitly.
MaxRetriesBound == 2

DEFAULT_OPTIONS == [maxRetries |-> 3, baseDelayMs |-> 1000, maxDelayMs |-> 30000]

\* const { maxRetries, baseDelayMs, maxDelayMs } = { ...DEFAULT_OPTIONS, ...opts }
MergeOptions(opts) ==
    [maxRetries  |-> IF opts.maxRetries = None THEN DEFAULT_OPTIONS.maxRetries
                     ELSE opts.maxRetries[1],
     baseDelayMs |-> IF opts.baseDelayMs = None THEN DEFAULT_OPTIONS.baseDelayMs
                     ELSE opts.baseDelayMs[1],
     maxDelayMs  |-> IF opts.maxDelayMs = None THEN DEFAULT_OPTIONS.maxDelayMs
                     ELSE opts.maxDelayMs[1]]

\* ---- the values fn can reject with ----
\* status: absent, a number, or a string holding digits (v is its numeric reading)
StatusAbsent == [t |-> "absent", v |-> 0]
StatusNum(n) == [t |-> "number", v |-> n]
StatusStr(n) == [t |-> "string", v |-> n]

\* headers["retry-after"]: there is no headers object, the object has no such
\* entry, the entry is a string, or the entry is a number
RaNoHeaders == [t |-> "noheaders", s |-> <<>>, n |-> 0]
RaAbsent    == [t |-> "absent", s |-> <<>>, n |-> 0]
RaStr(s)    == [t |-> "string", s |-> s, n |-> 0]
RaNum(n)    == [t |-> "number", s |-> <<>>, n |-> n]

ErrObj(status, ra) == [kind |-> "object", status |-> status, retryAfter |-> ra]
ErrString    == [kind |-> "string", status |-> StatusAbsent, retryAfter |-> RaNoHeaders]
ErrNull      == [kind |-> "null", status |-> StatusAbsent, retryAfter |-> RaNoHeaders]

RetryAfterStrings ==
    { <<"0", ".", "0", "1">>,   \* 10 ms
      <<"0">>,                  \* zero seconds
      <<"2">>,                  \* 2 s
      <<"6", "0">>,             \* 60 s, above the default maxDelayMs
      <<"-", "1">>,             \* a negative number
      <<"W", "e", "d">> }       \* the start of an HTTP date: not a number

ThrownValues ==
    { ErrObj(StatusNum(n), RaNoHeaders) : n \in {400, 404, 429, 499, 500, 503} }
    \cup { ErrObj(StatusNum(429), RaStr(s)) : s \in RetryAfterStrings }
    \cup { ErrObj(StatusNum(429), RaAbsent), ErrObj(StatusNum(429), RaNum(5)),
           ErrObj(StatusNum(404), RaStr(<<"2">>)),
           ErrObj(StatusAbsent, RaNoHeaders),
           ErrObj(StatusStr(429), RaNoHeaders), ErrObj(StatusStr(500), RaNoHeaders),
           ErrString, ErrNull }

OptsValues ==
    [maxRetries  : {None} \cup { Some(n) : n \in 0..MaxRetriesBound },
     baseDelayMs : {None, Some(1)},
     maxDelayMs  : {None, Some(10)}]

\* isRetryable with the typeof test of the >= 500 branch left out
isRetryable_Untyped(error) ==
    IF error.kind # "object" THEN FALSE
    ELSE IF error.status.t = "number" /\ error.status.v = 429 THEN TRUE
    ELSE IF error.status.t # "absent" /\ error.status.v >= 500 THEN TRUE
    ELSE FALSE

\* function isRetryable(error)
isRetryable(error) ==
    IF error.kind # "object" THEN FALSE
    ELSE IF error.status.t = "number" /\ error.status.v = 429 THEN TRUE
    ELSE IF error.status.t = "number" /\ error.status.v >= 500 THEN TRUE
    ELSE FALSE

\* ---- parseFloat, on the characters of the string ----
Digits == <<"0", "1", "2", "3", "4", "5", "6", "7", "8", "9">>
IsDigit(c) == \E d \in 1..10 : Digits[d] = c
DigitVal(c) == (CHOOSE d \in 1..10 : Digits[d] = c) - 1
IsSpace(c) == c \in {" ", "\t", "\n", "\r"}

RECURSIVE SkipSpaces(_)
SkipSpaces(s) ==
    IF s # <<>> /\ IsSpace(Head(s)) THEN SkipSpaces(Tail(s)) ELSE s

\* the longest prefix of digits of s, read as a number: <<value, count, rest>>
RECURSIVE ReadDigits(_, _, _)
ReadDigits(s, acc, count) ==
    IF s # <<>> /\ IsDigit(Head(s))
    THEN ReadDigits(Tail(s), acc * 10 + DigitVal(Head(s)), count + 1)
    ELSE <<acc, count, s>>

\* parseFloat(s): leading white space, an optional sign, digits with an optional
\* fraction; anything after the number is ignored; NaN without a digit.
\* The value is sign * mantissa / 10^scale. (Exponents and "Infinity" are
\* not read: no character of RetryAfterStrings starts one.)
parseFloat(str) ==
    LET s0   == SkipSpaces(str)
        neg  == s0 # <<>> /\ Head(s0) = "-"
        s1   == IF s0 # <<>> /\ Head(s0) \in {"-", "+"} THEN Tail(s0) ELSE s0
        ip   == ReadDigits(s1, 0, 0)
        dot  == ip[3] # <<>> /\ Head(ip[3]) = "."
        fp   == IF dot THEN ReadDigits(Tail(ip[3]), ip[1], 0) ELSE <<ip[1], 0, ip[3]>>
    IN  IF ip[2] + fp[2] = 0
        THEN [nan |-> TRUE, mantissa |-> 0, scale |-> 0]
        ELSE [nan |-> FALSE,
              mantissa |-> IF neg THEN 0 - fp[1] ELSE fp[1],
              scale |-> fp[2]]

\* seconds * 1000, for a parsed number
SecondsToMs(f) == (f.mantissa * 1000) \div (10 ^ f.scale)

\* function getRetryAfterMs(error): number | null
getRetryAfterMs(error) ==
    IF error.kind # "object" THEN None
    ELSE IF error.retryAfter.t = "noheaders" THEN None
    ELSE IF error.retryAfter.t = "string"
         THEN LET seconds == parseFloat(error.retryAfter.s)
              IN  IF ~seconds.nan THEN Some(SecondsToMs(seconds)) ELSE None
    ELSE None

\* the backoff counted from attempt 1 instead of attempt 0
ExponentialDelay_FromOne(baseDelayMs, n) == baseDelayMs * (2 ^ (n + 1))

\* const exponentialDelay = baseDelayMs * Math.pow(2, attempt)
ExponentialDelay(baseDelayMs, n) == baseDelayMs * (2 ^ n)

\* retryAfterMs ?? exponentialDelay
ChosenDelay(error, n, o) ==
    LET retryAfterMs == getRetryAfterMs(error)
    IN  IF retryAfterMs # None THEN retryAfterMs[1]
        ELSE ExponentialDelay(o.baseDelayMs, n)

\* the delay left uncapped
CapDelay_Uncapped(d, maxDelayMs) == d

\* Math.min(..., maxDelayMs)
CapDelay(d, maxDelayMs) == Min(d, maxDelayMs)

\* the retry budget off by one: one retry too many
GivesUp_OffByOne(n, error, o) == n > o.maxRetries \/ ~isRetryable(error)

\* if (attempt >= maxRetries || !isRetryable(error)) throw error
GivesUp(n, error, o) == n >= o.maxRetries \/ ~isRetryable(error)

Options == MergeOptions(rOpts)

\* the values fn can resolve with
FnValues == {"ok", "other"}

\* how withRetry settles: with fn's value, or with the value fn rejected with
Resolved(value) == [ok |-> TRUE, value |-> value, error |-> ErrNull]
Rejected(error) == [ok |-> FALSE, value |-> "", error |-> error]

RetryIdle ==
    /\ rOpts = [maxRetries |-> None, baseDelayMs |-> None, maxDelayMs |-> None]
    /\ rPc = "idle"
    /\ attempt = 0
    /\ lastError = None
    /\ pendingDelay = 0
    /\ invocations = 0
    /\ thrown = <<>>
    /\ chosen = <<>>
    /\ waited = <<>>
    /\ returned = None
    /\ outcome = None

\* withRetry(fn, opts) was called: the loop is about to invoke fn (attempt 0)
RetryInit ==
    /\ rOpts \in OptsValues
    /\ rPc = "call"
    /\ attempt = 0
    /\ lastError = None
    /\ pendingDelay = 0
    /\ invocations = 0
    /\ thrown = <<>>
    /\ chosen = <<>>
    /\ waited = <<>>
    /\ returned = None
    /\ outcome = None

\* return await fn(), fn resolving
FnResolves ==
    /\ rPc = "call"
    /\ attempt <= Options.maxRetries
    /\ invocations' = invocations + 1
    /\ \E value \in FnValues :
        /\ returned' = Some(value)
        /\ outcome' = Some(Resolved(value))
    /\ rPc' = "resolved"
    /\ UNCHANGED <<rOpts, attempt, lastError, pendingDelay, thrown, chosen, waited>>
    /\ UNCHANGED clientVars

\* await fn() rejecting with error: the catch block
FnRejects ==
    /\ rPc = "call"
    /\ attempt <= Options.maxRetries
    /\ \E error \in ThrownValues :
        /\ invocations' = invocations + 1
        /\ thrown' = Append(thrown, error)
        /\ lastError' = Some(error)
        /\ IF GivesUp(attempt, error, Options)
           THEN /\ rPc' = "rejected"
                /\ outcome' = Some(Rejected(error))
                /\ UNCHANGED <<pendingDelay, chosen>>
           ELSE /\ rPc' = "sleep"
                /\ chosen' = Append(chosen, ChosenDelay(error, attempt, Options))
                /\ pendingDelay' =
                       CapDelay(ChosenDelay(error, attempt, Options), Options.maxDelayMs)
                /\ UNCHANGED outcome
    /\ UNCHANGED <<rOpts, attempt, waited, returned>>
    /\ UNCHANGED clientVars

\* the timer of `await new Promise((resolve) => setTimeout(resolve, delay))`
\* fires; the for loop increments attempt
TimerFires ==
    /\ rPc = "sleep"
    /\ waited' = Append(waited, pendingDelay)
    /\ attempt' = attempt + 1
    /\ rPc' = "call"
    /\ UNCHANGED <<rOpts, lastError, pendingDelay, invocations, thrown, chosen,
                   returned, outcome>>
    /\ UNCHANGED clientVars

\* no client call is running while withRetry is looked at on its own
ClientIdle ==
    /\ store = [children |-> <<>>, properties |-> <<>>, created |-> <<>>, nextId |-> 1]
    /\ store0 = store
    /\ calls = <<>>

InitRetry == RetryInit /\ ClientIdle

NextRetry == FnResolves \/ FnRejects \/ TimerFires

SpecRetry == InitRetry /\ [][NextRetry]_vars

(***************************************************************************)
(* markdown-to-blocks.ts                                                   *)
(***************************************************************************)

\* the backtick character (a TLA+ string cannot hold it)
Backtick == "BACKTICK"

\* s.slice(from - 1, to): the characters from..to of s, none when from > to
Slice(s, from, to) == IF from > to THEN <<>> ELSE SubSeq(s, from, to)

\* the literal lit stands in s at position p
HasAt(s, p, lit) ==
    /\ p >= 1
    /\ p + Len(lit) - 1 <= Len(s)
    /\ SubSeq(s, p, p + Len(lit) - 1) = lit

\* the length of the longest run of characters other than stop from position p
RECURSIVE RunLen(_, _, _)
RunLen(s, p, stop) ==
    IF p > Len(s) \/ s[p] = stop THEN 0 ELSE 1 + RunLen(s, p + 1, stop)

DEFAULT_ANNOTATIONS ==
    [bold |-> FALSE, italic |-> FALSE, strikethrough |-> FALSE,
     underline |-> FALSE, code |-> FALSE]

\* a RichTextObject: { type: "text", text: { content, link }, annotations }
RichTextObject(content, link, annotations) ==
    [content |-> content, link |-> link, annotations |-> annotations]

NoMatch == [ok |-> FALSE, kind |-> "", content |-> <<>>, url |-> <<>>, end |-> 0]

\* one alternative open([^stop]+)close of the pattern, tried at position p
MatchDelimited(s, p, kind, open, stop, close) ==
    IF ~HasAt(s, p, open) THEN NoMatch
    ELSE LET q == p + Len(open)
             n == RunLen(s, q, stop)
         IN  IF n >= 1 /\ HasAt(s, q + n, close)
             THEN [ok |-> TRUE, kind |-> kind, content |-> SubSeq(s, q, q + n - 1),
                   url |-> <<>>, end |-> q + n + Len(close)]
             ELSE NoMatch

\* the (url) part of the first alternative, after a match t of [text](
LinkTarget(s, t) ==
    IF ~t.ok THEN NoMatch
    ELSE LET n == RunLen(s, t.end, ")")
         IN  IF n >= 1 /\ HasAt(s, t.end + n, <<")">>)
             THEN [t EXCEPT !.url = SubSeq(s, t.end, t.end + n - 1),
                            !.end = t.end + n + 1]
             ELSE NoMatch

\* the first alternative, \[([^\]]+)\]\(([^)]+)\), tried at position p
MatchLink(s, p) ==
    LinkTarget(s, MatchDelimited(s, p, "link", <<"[">>, "]", <<"]", "(">>))

\* the first of the alternatives, in their order, that matches
FirstMatch(alternatives) ==
    LET hits == { i \in 1..Len(alternatives) : alternatives[i].ok }
    IN  IF hits = {} THEN NoMatch ELSE alternatives[Least(hits)]

\* the alternation without its first alternative: no link is matched
MatchAt_NoLink(s, p) ==
    FirstMatch(<<
        MatchDelimited(s, p, "code", <<Backtick>>, Backtick, <<Backtick>>),
        MatchDelimited(s, p, "bold_italic", <<"*", "*", "*">>, "*", <<"*", "*", "*">>),
        MatchDelimited(s, p, "bold", <<"*", "*">>, "*", <<"*", "*">>),
        MatchDelimited(s, p, "italic", <<"*">>, "*", <<"*">>),
        MatchDelimited(s, p, "strikethrough", <<"~", "~">>, "~", <<"~", "~">>) >>)

\* the alternation tried at position p: link, code, bold italic, bold,
\* italic, strikethrough
MatchAt(s, p) ==
    FirstMatch(<<
        MatchLink(s, p),
        MatchDelimited(s, p, "code", <<Backtick>>, Backtick, <<Backtick>>),
        MatchDelimited(s, p, "bold_italic", <<"*", "*", "*">>, "*", <<"*", "*", "*">>),
        MatchDelimited(s, p, "bold", <<"*", "*">>, "*", <<"*", "*">>),
        MatchDelimited(s, p, "italic", <<"*">>, "*", <<"*">>),
        MatchDelimited(s, p, "strikethrough", <<"~", "~">>, "~", <<"~", "~">>) >>)

\* the RichTextObject pushed for a match
MatchSpan(m) ==
    RichTextObject(
        m.content,
        IF m.kind = "link" THEN Some(m.url) ELSE None,
        [DEFAULT_ANNOTATIONS EXCEPT
            !.code = (m.kind = "code"),
            !.bold = (m.kind \in {"bold", "bold_italic"}),
            !.italic = (m.kind \in {"italic", "bold_italic"}),
            !.strikethrough = (m.kind = "strikethrough")])

PlainSpan(content) == RichTextObject(content, None, DEFAULT_ANNOTATIONS)

\* the body of the while loop without its first part: the text before the
\* match is dropped
PushMatch_MatchOnly(text, p, lastIndex, results, m) == Append(results, MatchSpan(m))

\* the body of the while loop for a match m found at position p: the text
\* before the match, then the match
PushMatch(text, p, lastIndex, results, m) ==
    Append(IF p > lastIndex
           THEN Append(results, PlainSpan(SubSeq(text, lastIndex, p - 1)))
           ELSE results,
           MatchSpan(m))

\* the while loop over pattern.exec(text): p is the position the search has
\* reached, lastIndex (1-based) the end of the previous match, m the outcome
\* of the alternation at p
RECURSIVE ScanInline(_, _, _, _)
ScanFrom(text, p, lastIndex, results, m) ==
    IF m.ok THEN ScanInline(text, m.end, m.end, PushMatch(text, p, lastIndex, results, m))
    ELSE ScanInline(text, p + 1, lastIndex, results)

ScanInline(text, p, lastIndex, results) ==
    IF p > Len(text)
    THEN \* add remaining text
         IF lastIndex <= Len(text)
         THEN Append(results, PlainSpan(SubSeq(text, lastIndex, Len(text))))
         ELSE results
    ELSE ScanFrom(text, p, lastIndex, results, MatchAt(text, p))

\* if (results.length === 0 && text) results.push({ ... content: text })
OrWholeText(text, results) ==
    IF results = <<>> /\ text # <<>> THEN <<PlainSpan(text)>> ELSE results

\* function parseInlineFormatting(text)
parseInlineFormatting(text) == OrWholeText(text, ScanInline(text, 1, 1, <<>>))

makeRichText(text) == parseInlineFormatting(text)

\* markdown.split("\n"), computed by halves: the lines of the two halves,
\* the last line of the left half continued by the first of the right
RECURSIVE SplitLines(_)
SplitLines(s) ==
    IF s = <<>> THEN << <<>> >>
    ELSE IF Len(s) = 1 THEN (IF s[1] = "\n" THEN << <<>>, <<>> >> ELSE <<s>>)
    ELSE LET mid   == Len(s) \div 2
             left  == SplitLines(SubSeq(s, 1, mid))
             right == SplitLines(SubSeq(s, mid + 1, Len(s)))
         IN  SubSeq(left, 1, Len(left) - 1)
             \o <<left[Len(left)] \o right[1]>>
             \o SubSeq(right, 2, Len(right))

\* Array.prototype.join(sep), computed by halves
RECURSIVE Join(_, _)
Join(ls, sep) ==
    IF ls = <<>> THEN <<>>
    ELSE IF Len(ls) = 1 THEN ls[1]
    ELSE LET mid == Len(ls) \div 2
         IN  Join(SubSeq(ls, 1, mid), sep) \o sep \o Join(SubSeq(ls, mid + 1, Len(ls)), sep)

\* codeLines.join("\n")
JoinLines(ls) == Join(ls, <<"\n">>)

RECURSIVE TrimStart(_)
TrimStart(s) == IF s # <<>> /\ IsSpace(Head(s)) THEN TrimStart(Tail(s)) ELSE s

RECURSIVE TrimEnd(_)
TrimEnd(s) ==
    IF s # <<>> /\ IsSpace(s[Len(s)]) THEN TrimEnd(SubSeq(s, 1, Len(s) - 1)) ELSE s

\* trim() that takes nothing off
Trim_Nothing(s) == s

\* line.trim()
Trim(s) == TrimEnd(TrimStart(s))

\* \w
WordChars ==
    {"a", "b", "c", "d", "e", "f", "g", "h", "i", "j", "k", "l", "m", "n", "o", "p",
     "q", "r", "s", "t", "u", "v", "w", "x", "y", "z",
     "A", "B", "C", "D", "E", "F", "G", "H", "I", "J", "K", "L", "M", "N", "O", "P",
     "Q", "R", "S", "T", "U", "V", "W", "X", "Y", "Z",
     "0", "1", "2", "3", "4", "5", "6", "7", "8", "9", "_"}

AllIn(s, set) == \A i \in 1..Len(s) : s[i] \in set

Fence == <<Backtick, Backtick, Backtick>>

\* line.match(/^(3 backticks)(\w*)$/)
IsOpeningFence(line) == HasAt(line, 1, Fence) /\ AllIn(Slice(line, 4, Len(line)), WordChars)

\* lines[i].match(/^(3 backticks)$/)
IsClosingFence(line) == line = Fence

\* /^---+$/.test(line.trim())
IsDivider(line) == Len(Trim(line)) >= 3 /\ AllIn(Trim(line), {"-"})

\* . in (.+): any character but a line terminator (of those, the model's
\* strings have the line feed and the carriage return)
NoLineTerminator(s) == \A i \in 1..Len(s) : s[i] \notin {"\n", "\r"}

\* the marker patterns never match: a marked line goes on to the later
\* branches of the loop
HasPrefixAndText_Never(line, marker) == FALSE

\* line.match(/^<marker>(.+)$/)
HasPrefixAndText(line, marker) ==
    /\ HasAt(line, 1, marker)
    /\ Len(line) > Len(marker)
    /\ NoLineTerminator(line)

\* the number of leading digits of line
RECURSIVE DigitRun(_, _)
DigitRun(s, p) == IF p <= Len(s) /\ IsDigit(s[p]) THEN 1 + DigitRun(s, p + 1) ELSE 0

\* a NotionBlock: { object: "block", type, [type]: { rich_text, language } }
NotionBlock(type, rich_text, language) ==
    [type |-> type, rich_text |-> rich_text, language |-> language]

\* the test for the closing fence dropped: every fence runs to the end of
\* the input
FenceEnd_NeverCloses(lines, i) == Len(lines) + 1

\* the index of the first closing fence at or after i, or Len(lines) + 1
FenceEnd(lines, i) ==
    LET closing == { j \in i..Len(lines) : IsClosingFence(lines[j]) }
    IN  IF closing = {} THEN Len(lines) + 1 ELSE Least(closing)

\* the index of the first opening fence at or after i, or Len(lines) + 1
FenceStart(lines, i) ==
    LET opening == { j \in i..Len(lines) : IsOpeningFence(lines[j]) }
    IN  IF opening = {} THEN Len(lines) + 1 ELSE Least(opening)

\* the branch of the while loop the line takes, after the fence branch and
\* in the order of the code: the type of its block and the length of the
\* marker before its text ("" for the empty line, which gives no block)
LineKind(line) ==
    IF IsDivider(line) THEN [type |-> "divider", skip |-> 0]
    ELSE IF HasPrefixAndText(line, <<"#", " ">>) THEN [type |-> "heading_1", skip |-> 2]
    ELSE IF HasPrefixAndText(line, <<"#", "#", " ">>)
         THEN [type |-> "heading_2", skip |-> 3]
    ELSE IF HasPrefixAndText(line, <<"#", "#", "#", " ">>)
         THEN [type |-> "heading_3", skip |-> 4]
    ELSE IF HasPrefixAndText(line, <<"-", " ">>) \/ HasPrefixAndText(line, <<"*", " ">>)
         THEN [type |-> "bulleted_list_item", skip |-> 2]
    ELSE IF DigitRun(line, 1) >= 1
            /\ HasAt(line, DigitRun(line, 1) + 1, <<".", " ">>)
            /\ Len(line) > DigitRun(line, 1) + 2
            /\ NoLineTerminator(line)
         THEN [type |-> "numbered_list_item", skip |-> DigitRun(line, 1) + 2]
    ELSE IF HasPrefixAndText(line, <<">", " ">>) THEN [type |-> "quote", skip |-> 2]
    ELSE IF Trim(line) = <<>> THEN [type |-> "", skip |-> 0]
    ELSE [type |-> "paragraph", skip |-> 0]

\* the block pushed by that branch, when it pushes one: a divider has no
\* text, the others makeRichText of the line after its marker
KindBlock(line, kind) ==
    IF kind.type = "" THEN None
    ELSE IF kind.type = "divider" THEN Some(NotionBlock("divider", <<>>, None))
    ELSE Some(NotionBlock(kind.type,
                          makeRichText(Slice(line, kind.skip + 1, Len(line))), None))

\* the branch for the empty line dropped: a blank line goes on to the
\* default branch and gives a paragraph
LineBlock_BlankToo(line) ==
    IF LineKind(line).type = ""
    THEN Some(NotionBlock("paragraph", makeRichText(line), None))
    ELSE KindBlock(line, LineKind(line))

LineBlock(line) == KindBlock(line, LineKind(line))

\* the blocks of the lines a..b, none of which opens a fence: each line's
\* block in the order of the lines, computed by halves
RECURSIVE LineBlocks(_, _, _)
LineBlocks(lines, a, b) ==
    IF a > b THEN <<>>
    ELSE IF a = b THEN LineBlock(lines[a])
    ELSE LET mid == (a + b) \div 2
         IN  LineBlocks(lines, a, mid) \o LineBlocks(lines, mid + 1, b)

\* the while (i < lines.length) loop of markdownToBlocks, from line i: the
\* lines up to the next opening fence give their blocks, the fence a code
\* block of the lines up to its closing fence, and the loop goes on after it
RECURSIVE ScanLines(_, _, _)
ScanLines(lines, i, blocks) ==
    IF i > Len(lines) THEN blocks
    ELSE IF IsOpeningFence(lines[i])
    THEN LET lang == IF Len(lines[i]) > 3 THEN Slice(lines[i], 4, Len(lines[i]))
                     ELSE <<"p", "l", "a", "i", "n", " ", "t", "e", "x", "t">>
             end  == FenceEnd(lines, i + 1)
             code == JoinLines(Slice(lines, i + 1, end - 1))
         IN  ScanLines(lines, end + 1,
                 Append(blocks, NotionBlock("code", <<PlainSpan(code)>>, Some(lang))))
    ELSE LET fence == FenceStart(lines, i)
         IN  ScanLines(lines, fence, blocks \o LineBlocks(lines, i, fence - 1))

\* export function markdownToBlocks(markdown)
markdownToBlocks(markdown) == ScanLines(SplitLines(markdown), 1, <<>>)

(***************************************************************************)
(* property-builder.ts                                                     *)
(***************************************************************************)

\* ---- the values of a flat property map ----
VString(chars)  == [t |-> "string", s |-> chars, n |-> 0, b |-> FALSE, a |-> <<>>]
VNumber(n)      == [t |-> "number", s |-> <<>>, n |-> n, b |-> FALSE, a |-> <<>>]
VBoolean(b)     == [t |-> "boolean", s |-> <<>>, n |-> 0, b |-> b, a |-> <<>>]
VArray(elems)   == [t |-> "array", s |-> <<>>, n |-> 0, b |-> FALSE, a |-> elems]
\* an object already in the store's format, named by a token
VObject(token)  == [t |-> "object", s |-> token, n |-> 0, b |-> FALSE, a |-> <<>>]
VNull           == [t |-> "null", s |-> <<>>, n |-> 0, b |-> FALSE, a |-> <<>>]
VUndefined      == [t |-> "undefined", s |-> <<>>, n |-> 0, b |-> FALSE, a |-> <<>>]

\* the decimal digits of a natural number
RECURSIVE NatToChars(_)
NatToChars(n) ==
    IF n < 10 THEN <<Digits[n + 1]>> ELSE NatToChars(n \div 10) \o <<Digits[(n % 10) + 1]>>

\* String(value), for the values of a flat map
StringOf(v) ==
    CASE v.t = "string"    -> v.s
      [] v.t = "number"    -> IF v.n < 0 THEN <<"-">> \o NatToChars(0 - v.n) ELSE NatToChars(v.n)
      [] v.t = "boolean"   -> IF v.b THEN <<"t", "r", "u", "e">> ELSE <<"f", "a", "l", "s", "e">>
      [] v.t = "null"      -> <<"n", "u", "l", "l">>
      [] v.t = "undefined" -> <<"u", "n", "d", "e", "f", "i", "n", "e", "d">>
      [] v.t = "array"     -> IF v.a = <<>> THEN <<>> ELSE v.a[1].s
      [] OTHER             -> <<"[", "o", "b", "j", "e", "c", "t", " ", "O", "b", "j", "e", "c", "t", "]">>

\* Boolean(value)
BooleanOf(v) ==
    CASE v.t = "string"  -> v.s # <<>>
      [] v.t = "number"  -> v.n # 0
      [] v.t = "boolean" -> v.b
      [] v.t \in {"null", "undefined"} -> FALSE
      [] OTHER -> TRUE

\* ---- the store's property values ----
PropEmpty ==
    [kind |-> "", text |-> <<>>, options |-> <<>>, n |-> 0, b |-> FALSE,
     start |-> None, end |-> None]
PTitle(chars)       == [PropEmpty EXCEPT !.kind = "title", !.text = chars]
PRichText(chars)    == [PropEmpty EXCEPT !.kind = "rich_text", !.text = chars]
PMultiSelect(names) == [PropEmpty EXCEPT !.kind = "multi_select", !.options = names]
PNumber(n)          == [PropEmpty EXCEPT !.kind = "number", !.n = n]
PCheckbox(b)        == [PropEmpty EXCEPT !.kind = "checkbox", !.b = b]
POpaque(token)      == [PropEmpty EXCEPT !.kind = "opaque", !.text = token]
PDate(start, end)   == [PropEmpty EXCEPT !.kind = "date", !.start = start, !.end = end]

\* ---- insertion-ordered maps: sequences of [key, value] entries ----
HasKey(m, key) == \E i \in 1..Len(m) : m[i].key = key
Lookup(m, key) == m[CHOOSE i \in 1..Len(m) : m[i].key = key].value
\* m[key] = value
SetKey(m, key, value) ==
    IF HasKey(m, key)
    THEN [i \in 1..Len(m) |-> IF m[i].key = key THEN [key |-> key, value |-> value] ELSE m[i]]
    ELSE Append(m, [key |-> key, value |-> value])
Keys(m) == [i \in 1..Len(m) |-> m[i].key]

DatePrefix == <<"d", "a", "t", "e", ":">>

\* the position of the last ":" of key that leaves both groups of
\* /^date:(.+):(.+)$/ non-empty, or 0
RECURSIVE LastColon(_, _)
LastColon(key, j) ==
    IF j < Len(DatePrefix) + 2 THEN 0
    ELSE IF key[j] = ":" THEN j
    ELSE LastColon(key, j - 1)

\* key.match(/^date:(.+):(.+)$/): None, or <<propName, field>>
DateMatch(key) ==
    IF HasAt(key, 1, DatePrefix) /\ NoLineTerminator(key) /\ LastColon(key, Len(key) - 1) # 0
    THEN LET j == LastColon(key, Len(key) - 1)
         IN  Some([propName |-> SubSeq(key, Len(DatePrefix) + 1, j - 1),
                   field |-> SubSeq(key, j + 1, Len(key))])
    ELSE None

EmptyAccumulator == [start |-> None, end |-> None, is_datetime |-> None]

\* the body of the first loop for one entry whose key is a date key
Accumulate(accs, m, value) ==
    LET acc0 == IF HasKey(accs, m.propName) THEN Lookup(accs, m.propName)
                ELSE EmptyAccumulator
        acc1 == IF m.field = <<"s", "t", "a", "r", "t">>
                THEN [acc0 EXCEPT !.start = Some(StringOf(value))]
                ELSE IF m.field = <<"e", "n", "d">>
                THEN [acc0 EXCEPT !.end = Some(StringOf(value))]
                ELSE IF m.field = <<"i", "s", "_", "d", "a", "t", "e", "t", "i", "m", "e">>
                THEN [acc0 EXCEPT !.is_datetime = Some(BooleanOf(value))]
                ELSE acc0
    IN  SetKey(accs, m.propName, acc1)

NameKey == <<"N", "a", "m", "e">>

\* the conversions left out: no entry but the dates reaches the result
Convert_Nothing(result, key, value) == result

\* the body of the first loop for one entry whose key is not a date key
Convert(result, key, value) ==
    IF key = NameKey /\ value.t = "string" THEN SetKey(result, key, PTitle(value.s))
    ELSE IF value.t = "array"
         THEN SetKey(result, key,
                     PMultiSelect([i \in 1..Len(value.a) |-> StringOf(value.a[i])]))
    ELSE IF value.t = "number" THEN SetKey(result, key, PNumber(value.n))
    ELSE IF value.t = "boolean" THEN SetKey(result, key, PCheckbox(value.b))
    ELSE IF value.t = "string" THEN SetKey(result, key, PRichText(value.s))
    ELSE IF value.t = "object" THEN SetKey(result, key, POpaque(value.s))
    ELSE result

\* for (const [key, value] of Object.entries(flat)): <<result, dateAccumulators>>
RECURSIVE ScanEntries(_, _, _, _)
ScanEntries(flat, i, result, accs) ==
    IF i > Len(flat) THEN <<result, accs>>
    ELSE IF DateMatch(flat[i].key) # None
    THEN ScanEntries(flat, i + 1, result,
                     Accumulate(accs, DateMatch(flat[i].key)[1], flat[i].value))
    ELSE ScanEntries(flat, i + 1, Convert(result, flat[i].key, flat[i].value), accs)

\* if (acc.start) date.start = acc.start
Truthy(optChars) == optChars # None /\ optChars[1] # <<>>

\* for (const [propName, acc] of Object.entries(dateAccumulators))
RECURSIVE EmitDates(_, _, _)
EmitDates(accs, i, result) ==
    IF i > Len(accs) THEN result
    ELSE EmitDates(accs, i + 1,
             SetKey(result, accs[i].key,
                    PDate(IF Truthy(accs[i].value.start) THEN accs[i].value.start ELSE None,
                          IF Truthy(accs[i].value.end) THEN accs[i].value.end ELSE None)))

\* export function buildProperties(flat)
buildProperties(flat) ==
    LET scanned == ScanEntries(flat, 1, <<>>, <<>>)
    IN  EmitDates(scanned[2], 1, scanned[1])

(***************************************************************************)
(* url-parser.ts                                                           *)
(*                                                                         *)
(* The strings of the model are of two kinds: strings without a colon,     *)
(* which new URL() rejects for want of a scheme, and https URLs with a     *)
(* host, which it parses.                                                  *)
(***************************************************************************)

\* [0-9a-f] under the i flag
HexChars ==
    {"0", "1", "2", "3", "4", "5", "6", "7", "8", "9",
     "a", "b", "c", "d", "e", "f", "A", "B", "C", "D", "E", "F"}

\* String.prototype.toLowerCase
ToLowerCase(s) ==
    LET upper == <<"A", "B", "C", "D", "E", "F", "G", "H", "I", "J", "K", "L", "M", "N", "O", "P", "Q", "R", "S", "T", "U", "V", "W", "X", "Y", "Z">>
        lower == <<"a", "b", "c", "d", "e", "f", "g", "h", "i", "j", "k", "l", "m", "n", "o", "p", "q", "r", "s", "t", "u", "v", "w", "x", "y", "z">>
    IN  [i \in 1..Len(s) |->
            IF \E k \in 1..26 : upper[k] = s[i]
            THEN lower[CHOOSE k \in 1..26 : upper[k] = s[i]]
            ELSE s[i]]

\* UUID_RE.test(s)
UUID_RE(s) ==
    /\ Len(s) = 36
    /\ \A i \in 1..36 : IF i \in {9, 14, 19, 24} THEN s[i] = "-" ELSE s[i] \in HexChars

\* HEX32_RE.test(s)
HEX32_RE(s) == Len(s) = 32 /\ AllIn(s, HexChars)

\* toUuid with the dashes left out: the 32 characters in lower case
toUuid_Undashed(hex32) ==
    LET NotDash(ch) == ch # "-"
    IN  ToLowerCase(SelectSeq(hex32, NotDash))

\* export function toUuid(hex32)
toUuid(hex32) ==
    LET NotDash(ch) == ch # "-"
        h == ToLowerCase(SelectSeq(hex32, NotDash))
    IN  IF Len(h) # 32 THEN hex32
        ELSE SubSeq(h, 1, 8) \o <<"-">> \o SubSeq(h, 9, 12) \o <<"-">> \o SubSeq(h, 13, 16)
                 \o <<"-">> \o SubSeq(h, 17, 20) \o <<"-">> \o SubSeq(h, 21, 32)

\* what follows the last ch of s, all of s when it has none: s.split(ch).pop()
AfterLast(s, ch) ==
    LET at == { i \in 1..Len(s) : s[i] = ch }
    IN  IF at = {} THEN s ELSE Slice(s, (CHOOSE i \in at : \A j \in at : j <= i) + 1, Len(s))

\* new URL(s).pathname: None when the constructor throws.  The parser drops
\* every tab and newline of its input; for an https URL the host runs up to
\* the first "/", "?" or "#" and may hold no space, and the path is what
\* stands from the first "/" up to the query or the fragment, "/" when there
\* is none, each space of it written %20
Pathname(s) ==
    LET NotTabOrNewline(ch) == ch \notin {"\t", "\n", "\r"}
        clean == SelectSeq(s, NotTabOrNewline)
        rest  == Slice(clean, 9, Len(clean))
        stops == { i \in 1..Len(rest) : rest[i] \in {"?", "#"} }
        upto  == IF stops = {} THEN Len(rest) ELSE Least(stops) - 1
        slash == { i \in 1..upto : rest[i] = "/" }
        host  == IF slash = {} THEN Slice(rest, 1, upto) ELSE Slice(rest, 1, Least(slash) - 1)
        path  == IF slash = {} THEN <<"/">> ELSE Slice(rest, Least(slash), upto)
        encoded[i \in 0..Len(path)] ==
            IF i = 0 THEN <<>>
            ELSE encoded[i - 1] \o (IF path[i] = " " THEN <<"%", "2", "0">> ELSE <<path[i]>>)
    IN  IF ~HasAt(clean, 1, <<"h", "t", "t", "p", "s", ":", "/", "/">>) THEN None
        ELSE IF host = <<>> \/ \E i \in 1..Len(host) : host[i] = " " THEN None
        ELSE Some(encoded[Len(path)])

\* the body of the try block for the path of a URL: the identifier it
\* returns, or None when it falls through
PathId(path) ==
    IF Len(path) >= 32 /\ AllIn(SubSeq(path, Len(path) - 31, Len(path)), HexChars)
    THEN Some(toUuid(SubSeq(path, Len(path) - 31, Len(path))))
    ELSE IF HEX32_RE(AfterLast(AfterLast(path, "/"), "-"))
    THEN Some(toUuid(AfterLast(AfterLast(path, "/"), "-")))
    ELSE None

\* trimmed.match(/([0-9a-f]{32})/i): the first run of 32, or None
HexMatch(trimmed) ==
    LET at == { i \in 1..(Len(trimmed) - 31) : AllIn(SubSeq(trimmed, i, i + 31), HexChars) }
    IN  IF at = {} THEN None ELSE Some(SubSeq(trimmed, Least(at), Least(at) + 31))

\* the rest of extractNotionId for a trimmed input that is neither a UUID
\* nor 32 hex characters, path being the path of the URL it is, if any
FromUrlOrText(trimmed, path) ==
    IF path # None /\ PathId(path[1]) # None THEN PathId(path[1])[1]
    ELSE IF HexMatch(trimmed) # None THEN toUuid(HexMatch(trimmed)[1])
    ELSE trimmed

\* export function extractNotionId(input)
extractNotionId(input) ==
    IF UUID_RE(Trim(input)) THEN ToLowerCase(Trim(input))
    ELSE IF HEX32_RE(Trim(input)) THEN toUuid(Trim(input))
    ELSE FromUrlOrText(Trim(input), Pathname(Trim(input)))

(***************************************************************************)
(* The document store, as the client sees it through the SDK               *)
(* (blocks.children.list / append, blocks.delete, pages.update / create /  *)
(* retrieve).  Identifiers are numbers: the page is PageId, its existing   *)
(* blocks are 1, 2, ..., the children of block b are 1000 * b + 1, ...,    *)
(* and the blocks the store creates get the negative numbers -1, -2, ...   *)
(***************************************************************************)

\* page_size: 100, the size of the listing pages the client asks for
page_size == 100

\* the store's ceiling on the blocks of one append or create request
MAX_CHILDREN == 100

\* Bounds of the model: the largest numbers of blocks of the page, of
\* children of one block, and of blocks a Markdown content parses to.
MaxTopBlocks == 150
MaxChildBlocks == 201
MaxContentBlocks == 101

PageId == 0

ExistingBlock(id) ==
    [id |-> id, block |-> NotionBlock("paragraph", <<PlainSpan(<<"B">>)>>, None)]

ChildId(b, k) == 1000 * b + k

\* a page of n blocks; block 1 has k children, of which the first has j
\* children; the last block has one child when lastHasChild
StoreTree(n, k, j, lastHasChild) ==
    LET parents == {PageId}
                   \cup (IF n >= 1 /\ k >= 1 THEN {1} ELSE {})
                   \cup (IF n >= 1 /\ k >= 1 /\ j >= 1 THEN {ChildId(1, 1)} ELSE {})
                   \cup (IF n >= 2 /\ lastHasChild THEN {n} ELSE {})
    IN  [p \in parents |->
            IF p = PageId THEN [i \in 1..n |-> ExistingBlock(i)]
            ELSE IF p = 1 THEN [i \in 1..k |-> ExistingBlock(ChildId(1, i))]
            ELSE IF p = ChildId(1, 1)
                 THEN [i \in 1..j |-> ExistingBlock(ChildId(ChildId(1, 1), i))]
            ELSE <<ExistingBlock(ChildId(n, 1))>>]

OldTitle == <<"O", "l", "d">>

NewStore(children) ==
    [children |-> children,
     properties |-> <<[key |-> NameKey, value |-> PTitle(OldTitle)]>>,
     created |-> <<>>,
     nextId |-> 1]

ChildrenOf(st, id) == IF id \in DOMAIN st.children THEN st.children[id] ELSE <<>>

\* a block as a listing returns it
Listed(st, b) ==
    [id |-> b.id, type |-> b.block.type, has_children |-> ChildrenOf(st, b.id) # <<>>,
     block |-> b.block]

\* blocks.children.list({ block_id, page_size, start_cursor }): a cursor is the
\* position of the next block; next_cursor is null unless has_more
StoreList(st, id, start_cursor, size) ==
    LET all  == ChildrenOf(st, id)
        from == IF start_cursor = None THEN 1 ELSE start_cursor[1]
        to   == Min(from + size - 1, Len(all))
    IN  [results |-> [i \in 1..(IF to >= from THEN to - from + 1 ELSE 0) |->
                          Listed(st, all[from + i - 1])],
         has_more |-> to < Len(all),
         next_cursor |-> IF to < Len(all) THEN Some(to + 1) ELSE None]

\* blocks.delete({ block_id })
StoreDelete(st, id) ==
    LET Keep(b) == b.id # id
    IN  [st EXCEPT !.children = [p \in DOMAIN st.children |->
                                    SelectSeq(st.children[p], Keep)]]

\* the store takes a request of this many children
StoreAccepts(n) == n <= MAX_CHILDREN

\* blocks.children.append({ block_id, children }), accepted
StoreAppend(st, id, blocks) ==
    LET fresh == [i \in 1..Len(blocks) |->
                     [id |-> 0 - (st.nextId + i - 1), block |-> blocks[i]]]
    IN  [st EXCEPT !.children =
                      [p \in DOMAIN st.children \cup {id} |->
                          IF p = id THEN ChildrenOf(st, id) \o fresh ELSE st.children[p]],
                   !.nextId = st.nextId + Len(blocks)]

\* the properties of properties written over those of the page
RECURSIVE MergeProperties(_, _, _)
MergeProperties(old, new, i) ==
    IF i > Len(new) THEN old
    ELSE MergeProperties(SetKey(old, new[i].key, new[i].value), new, i + 1)

\* pages.update({ page_id, properties })
StoreUpdate(st, properties) ==
    [st EXCEPT !.properties = MergeProperties(st.properties, properties, 1)]

\* pages.create({ parent, properties, children }), accepted
StoreCreate(st, parentType, parentId, properties, children) ==
    [st EXCEPT !.created = Append(st.created,
                              [id |-> 0 - st.nextId, parentType |-> parentType,
                               parentId |-> parentId, properties |-> properties,
                               children |-> children]),
               !.nextId = st.nextId + 1]

(***************************************************************************)
(* blocks-to-markdown.ts                                                   *)
(*                                                                         *)
(* A block the serializer reads is [id, type, has_children, data], data    *)
(* being block[type]: absent, or the payload.  A payload has every field   *)
(* the serializer reads, the fields a block does not carry being absent    *)
(* (empty, FALSE or None).  A RichText is a RichTextObject: its content    *)
(* is rt.plain_text || rt.text?.content, its link rt.href ||               *)
(* rt.text?.link?.url.                                                     *)
(***************************************************************************)

\* block[type] with rich_text and language, and nothing else
Payload(rich_text, language) ==
    [rich_text |-> rich_text, language |-> language, checked |-> FALSE, icon |-> <<>>,
     imageType |-> "", file |-> <<>>, external |-> <<>>, caption |-> <<>>,
     cells |-> None, url |-> <<>>, expression |-> <<>>]

\* a Block
Block(id, type, has_children, data) ==
    [id |-> id, type |-> type, has_children |-> has_children, data |-> data]

\* "  ".repeat(indent)
Prefix(indent) == [i \in 1..(2 * indent) |-> " "]

\* the marks and the link left out: a span gives its text
SpanToMarkdown_TextOnly(rt) == rt.content

\* the callback of richTexts.map: one span with its marks, innermost first:
\* code, bold, italic, strikethrough, then the link around them
SpanToMarkdown(rt) ==
    LET Wrap(on, mark, text) == IF on THEN mark \o text \o mark ELSE text
        marked == Wrap(rt.annotations.strikethrough, <<"~", "~">>,
                    Wrap(rt.annotations.italic, <<"*">>,
                      Wrap(rt.annotations.bold, <<"*", "*">>,
                        Wrap(rt.annotations.code, <<Backtick>>, rt.content))))
    IN  IF rt.content = <<>> THEN <<>>
        ELSE IF rt.link # None /\ rt.link[1] # <<>>
             THEN <<"[">> \o marked \o <<"]", "(">> \o rt.link[1] \o <<")">>
        ELSE marked

\* export function richTextToMarkdown(richTexts)
richTextToMarkdown(richTexts) ==
    Join([i \in 1..Len(richTexts) |-> SpanToMarkdown(richTexts[i])], <<>>)

\* the switch of blockToMarkdown on a block that has its payload
PayloadToMarkdown(type, data, prefix, text) ==
    CASE type = "paragraph" -> prefix \o text
      [] type = "heading_1" -> prefix \o <<"#", " ">> \o text
      [] type = "heading_2" -> prefix \o <<"#", "#", " ">> \o text
      [] type = "heading_3" -> prefix \o <<"#", "#", "#", " ">> \o text
      [] type = "bulleted_list_item" -> prefix \o <<"-", " ">> \o text
      [] type = "numbered_list_item" -> prefix \o <<"1", ".", " ">> \o text
      [] type = "to_do" ->
             prefix \o <<"-", " ", "[", IF data.checked THEN "x" ELSE " ", "]", " ">> \o text
      [] type = "toggle" -> prefix \o <<"-", " ">> \o text
      [] type = "code" ->
             prefix \o Fence \o (IF data.language = None THEN <<>> ELSE data.language[1])
                 \o <<"\n">> \o prefix \o text \o <<"\n">> \o prefix \o Fence
      [] type = "quote" -> prefix \o <<">", " ">> \o text
      [] type = "callout" -> prefix \o <<">", " ">> \o data.icon \o <<" ">> \o text
      [] type = "divider" -> prefix \o <<"-", "-", "-">>
      [] type = "image" ->
             prefix \o <<"!", "[">> \o richTextToMarkdown(data.caption) \o <<"]", "(">>
                 \o (IF data.imageType = "file" THEN data.file ELSE data.external)
                 \o <<")">>
      [] type = "table" -> <<>>
      [] type = "table_row" ->
             IF data.cells = None THEN <<>>
             ELSE prefix \o <<"|", " ">>
                      \o Join([i \in 1..Len(data.cells[1]) |->
                                  richTextToMarkdown(data.cells[1][i])], <<" ", "|", " ">>)
                      \o <<" ", "|">>
      [] type = "bookmark" ->
             prefix \o <<"[">>
                 \o (IF richTextToMarkdown(data.caption) # <<>>
                     THEN richTextToMarkdown(data.caption) ELSE data.url)
                 \o <<"]", "(">> \o data.url \o <<")">>
      [] type = "embed" ->
             prefix \o <<"[">> \o data.url \o <<"]", "(">> \o data.url \o <<")">>
      [] type = "equation" -> prefix \o <<"$", "$">> \o data.expression \o <<"$", "$">>
      [] OTHER -> <<>>

\* function blockToMarkdown(block, indent): if (!data) return ""
blockToMarkdown(block, indent) ==
    IF block.data = None THEN <<>>
    ELSE PayloadToMarkdown(block.type, block.data[1], Prefix(indent),
                           richTextToMarkdown(block.data[1].rich_text))

\* the accumulators of one activation of blocksToMarkdown
NoLines == [lines |-> <<>>, isFirstTableRow |-> TRUE]

\* the body of the for loop before its child fetch, for a block whose line
\* is line: a table_row pushes its line, and after the first row of a run
\* the separator when the row has cells; any other block pushes its line
\* when it is not empty
PushLine(acc, block, indent, line) ==
    IF block.type = "table_row"
    THEN [lines |-> Append(acc.lines, line)
                    \o (IF acc.isFirstTableRow /\ block.data # None
                           /\ block.data[1].cells # None
                        THEN <<Prefix(indent) \o <<"|", " ">>
                               \o Join([i \in 1..Len(block.data[1].cells[1]) |->
                                           <<"-", "-", "-">>], <<" ", "|", " ">>)
                               \o <<" ", "|">>>>
                        ELSE <<>>),
          isFirstTableRow |-> FALSE]
    ELSE [lines |-> IF line # <<>> THEN Append(acc.lines, line) ELSE acc.lines,
          isFirstTableRow |-> TRUE]

\* the for loop over the blocks a..b, none of which awaits its children,
\* from the accumulators acc: the blocks in their order, computed by halves
RECURSIVE RenderRange(_, _, _, _, _)
RenderRange(blocks, a, b, indent, acc) ==
    IF a > b THEN acc
    ELSE IF a = b THEN PushLine(acc, blocks[a], indent, blockToMarkdown(blocks[a], indent))
    ELSE RenderRange(blocks, (a + b) \div 2 + 1, b, indent,
                     RenderRange(blocks, a, (a + b) \div 2, indent, acc))

\* export function blocksToMarkdownSync(blocks, indent)
blocksToMarkdownSync(blocks, indent) ==
    JoinLines(RenderRange(blocks, 1, Len(blocks), indent, NoLines).lines)

\* ---- blocksToMarkdown, one await at a time ----

\* the test of options?.fetchChildren dropped: children are fetched for
\* every block with has_children
HasFetchChildren_Always(options) == TRUE

\* options?.fetchChildren: options is absent, or holds whether it has the
\* callback; the callback resolves with the children the store has for the id
HasFetchChildren(options) == options # None /\ options[1].fetchChildren

\* an activation whose isFirstTableRow starts false: its first table row
\* gets no separator
Activation_RowSeen(blocks, indent) ==
    [blocks |-> blocks, indent |-> indent, idx |-> 1,
     lines |-> NoLines.lines, isFirstTableRow |-> FALSE]

\* one activation of blocksToMarkdown(blocks, options, indent): its
\* parameters, the position of its for loop, and its locals
Activation(blocks, indent) ==
    [blocks |-> blocks, indent |-> indent, idx |-> 1,
     lines |-> NoLines.lines, isFirstTableRow |-> NoLines.isFirstTableRow]

\* a call of blocksToMarkdown or blocksToMarkdownSync by a caller; events
\* is the log of what it did: the blocks its loops rendered, the
\* identifiers fetchChildren was invoked with
Invocation(op, blocks, options, indent) ==
    [op |-> op, blocks |-> blocks, options |-> options, indent |-> indent,
     pc |-> IF op = "blocksToMarkdown" THEN "loop" ELSE "sync",
     stack |-> IF op = "blocksToMarkdown" THEN <<Activation(blocks, indent)>> ELSE <<>>,
     events |-> <<>>, result |-> None]

\* lines and isFirstTableRow as variables of the module: every activation
\* reads the flag that the last row of any of them left
Locals_SharedFlag(all, c) ==
    [lines |-> all[c].stack[Len(all[c].stack)].lines,
     isFirstTableRow |-> \A k \in DOMAIN all :
                             all[k].stack # <<>>
                                 => all[k].stack[Len(all[k].stack)].isFirstTableRow]

\* const lines and let isFirstTableRow: the locals that the running
\* activation of the invocation c of all reads and writes are its own
Locals(all, c) ==
    [lines |-> all[c].stack[Len(all[c].stack)].lines,
     isFirstTableRow |-> all[c].stack[Len(all[c].stack)].isFirstTableRow]

\* one turn of the for loop up to its child fetch: the block's line is
\* pushed (PushLine); a block with has_children, when the callback is
\* there, has its children fetched next, any other block ends the turn
RenderBlock ==
    \E c \in DOMAIN calls :
        /\ calls[c].pc = "loop"
        /\ LET call  == calls[c]
               d     == Len(call.stack)
               top   == call.stack[d]
           IN  /\ top.idx <= Len(top.blocks)
               /\ LET block  == top.blocks[top.idx]
                      acc    == PushLine(Locals(calls, c), block, top.indent,
                                         blockToMarkdown(block, top.indent))
                      fetch  == block.has_children /\ HasFetchChildren(call.options)
                  IN  calls' = [calls EXCEPT ![c] =
                          [call EXCEPT
                              !.stack[d].lines = acc.lines,
                              !.stack[d].isFirstTableRow = acc.isFirstTableRow,
                              !.stack[d].idx = IF fetch THEN @ ELSE @ + 1,
                              !.pc = IF fetch THEN "fetch" ELSE "loop",
                              !.events = Append(@, [kind |-> "block", id |-> block.id,
                                                    indent |-> top.indent])]]
        /\ UNCHANGED <<store, store0, retryVars>>

\* const children = await options.fetchChildren(block.id), and the call of
\* blocksToMarkdown(children, options, indent + 1)
CallFetchChildren ==
    \E c \in DOMAIN calls :
        /\ calls[c].pc = "fetch"
        /\ LET call  == calls[c]
               top   == call.stack[Len(call.stack)]
               id    == top.blocks[top.idx].id
           IN  calls' = [calls EXCEPT ![c] =
                   [call EXCEPT
                       !.stack = Append(@, Activation(ChildrenOf(store, id), top.indent + 1)),
                       !.pc = "loop",
                       !.events = Append(@, [kind |-> "fetchChildren", id |-> id,
                                             indent |-> top.indent])]]
        /\ UNCHANGED <<store, store0, retryVars>>

\* return lines.join("\n"): to the caller, or to the activation that awaits
\* it, which does if (childMd) lines.push(childMd) and ends its turn
ReturnMarkdown ==
    \E c \in DOMAIN calls :
        /\ calls[c].pc = "loop"
        /\ LET call == calls[c]
               d    == Len(call.stack)
               top  == call.stack[d]
               md   == JoinLines(top.lines)
           IN  /\ top.idx > Len(top.blocks)
               /\ calls' = [calls EXCEPT ![c] =
                      IF d = 1
                      THEN [call EXCEPT !.stack = <<>>, !.pc = "done", !.result = Some(md)]
                      ELSE [call EXCEPT
                               !.stack = [SubSeq(call.stack, 1, d - 1) EXCEPT
                                             ![d - 1].lines = IF md # <<>> THEN Append(@, md) ELSE @,
                                             ![d - 1].idx = @ + 1]]]
        /\ UNCHANGED <<store, store0, retryVars>>

\* a call of blocksToMarkdownSync: it has no await
RunSync ==
    \E c \in DOMAIN calls :
        /\ calls[c].pc = "sync"
        /\ calls' = [calls EXCEPT ![c] =
               [calls[c] EXCEPT !.pc = "done",
                                !.result = Some(blocksToMarkdownSync(calls[c].blocks,
                                                                    calls[c].indent))]]
        /\ UNCHANGED <<store, store0, retryVars>>

(***************************************************************************)
(* client.ts: NotyClient                                                   *)
(***************************************************************************)

\* the arguments of a call (UpdatePageArgs / CreatePageArgs), a field the
\* caller left out being absent
Args(properties, content, mode, title, parentType) ==
    [properties |-> properties, content |-> content, mode |-> mode,
     title |-> title, parentType |-> parentType]

\* the test of args.properties dropped: pages.update is sent by every call
HasProperties_Always(args) == TRUE

\* if (args.properties): an object, even an empty one, is truthy
HasProperties(args) == args.properties # None

\* the flat map handed to buildProperties
FlatOf(args) == IF args.properties = None THEN <<>> ELSE args.properties[1]

\* if (args.content): the empty string is falsy
HasContent(args) == args.content # None /\ args.content[1] # <<>>

\* cursor = res.has_more ? (res.next_cursor ?? undefined) : undefined,
\* with the cursor dropped: the loop ends after the first listing page
NextCursor_FirstPageOnly(res) == None

\* cursor = res.has_more ? (res.next_cursor ?? undefined) : undefined
NextCursor(res) == IF res.has_more THEN res.next_cursor ELSE None

\* function extractTitle(page)
RECURSIVE extractTitle(_)
extractTitle(props) ==
    IF props = <<>> THEN <<>>
    ELSE IF Head(props).value.kind = "title" THEN Head(props).value.text
    ELSE extractTitle(Tail(props))

\* function pageToResult(page)
pageToResult(id, props) == [id |-> id, title |-> extractTitle(props), properties |-> props]

\* a request to the store and what it answered, as the call's log keeps it
Request(api, id, start_cursor, size, res) ==
    [api |-> api, id |-> id, start_cursor |-> start_cursor, size |-> size,
     has_more |-> res.has_more, next_cursor |-> res.next_cursor]

NoAnswer == [has_more |-> FALSE, next_cursor |-> None]

\* one activation of blocksToMarkdown: the blocks it walks, the index of
\* the block it is at
Frame(parent, blocks, idx) == [parent |-> parent, blocks |-> blocks, idx |-> idx]

\* the for loop of blocksToMarkdown run up to its next await: the top
\* activation stops at a block with has_children (fetchChildren is always
\* supplied by getPage); an activation at its end returns to its caller,
\* which goes on with its next block
RECURSIVE Settle(_)
Settle(stack) ==
    IF stack = <<>> THEN <<>>
    ELSE LET top    == stack[Len(stack)]
             awaits == { i \in top.idx..Len(top.blocks) : top.blocks[i].has_children }
         IN  IF awaits # {} THEN [stack EXCEPT ![Len(stack)].idx = Least(awaits)]
             ELSE IF Len(stack) = 1 THEN <<>>
             ELSE LET rest == SubSeq(stack, 1, Len(stack) - 1)
                  IN  Settle([rest EXCEPT ![Len(rest)].idx = @ + 1])

\* where updatePage goes after the properties: if (args.content)
AfterProperties(args) == IF HasContent(args) THEN "update.list" ELSE "update.retrieve"

FirstPc(op, args) ==
    CASE op = "updatePage" ->
             IF HasProperties(args) THEN "update.properties" ELSE AfterProperties(args)
      [] op = "createPage" -> "create"
      [] OTHER -> "get.list"

\* a call as it starts: the page reference is given in canonical form
NewCall(op, pageId, args) ==
    [op |-> op, pageId |-> pageId, args |-> args, pc |-> FirstPc(op, args),
     existing |-> <<>>, delIdx |-> 1, newBlocks |-> <<>>,
     cursor |-> None, blocks |-> <<>>, childCursor |-> None, childBlocks |-> <<>>,
     stack |-> <<>>, handed |-> <<>>,
     requests |-> <<>>, result |-> None]

\* ---- updatePage ----

\* await this.client.pages.update({ page_id, properties })
UpdateProperties ==
    \E c \in DOMAIN calls :
        /\ calls[c].pc = "update.properties"
        /\ LET call == calls[c]
               properties == buildProperties(FlatOf(call.args))
           IN  /\ store' = StoreUpdate(store, properties)
               /\ calls' = [calls EXCEPT ![c] =
                      [call EXCEPT
                          !.pc = AfterProperties(call.args),
                          !.requests = Append(@, Request("pages.update", call.pageId, None,
                                                         Len(properties), NoAnswer))]]
        /\ UNCHANGED <<store0, retryVars>>

\* the append left out: updatePage goes from its deletions to the retrieve
AfterDeletes_NoAppend(call) ==
    [call EXCEPT !.newBlocks = markdownToBlocks(call.args.content[1]),
                 !.pc = "update.retrieve"]

\* the end of the deletion loop: const newBlocks = markdownToBlocks(args.content);
\* if (newBlocks.length > 0) the append comes next, else the retrieve
AfterDeletes(call) ==
    LET newBlocks == markdownToBlocks(call.args.content[1])
    IN  [call EXCEPT !.newBlocks = newBlocks,
                     !.pc = IF Len(newBlocks) > 0 THEN "update.append"
                            ELSE "update.retrieve"]

\* const existing = await this.client.blocks.children.list({ block_id, page_size })
ListExisting ==
    \E c \in DOMAIN calls :
        /\ calls[c].pc = "update.list"
        /\ LET call == calls[c]
               res  == StoreList(store, call.pageId, None, page_size)
               got  == [call EXCEPT
                           !.existing = res.results,
                           !.delIdx = 1,
                           !.pc = "update.delete",
                           !.requests = Append(@, Request("list", call.pageId, None,
                                                          page_size, res))]
           IN  calls' = [calls EXCEPT ![c] =
                            IF res.results = <<>> THEN AfterDeletes(got) ELSE got]
        /\ UNCHANGED <<store, store0, retryVars>>

\* for (const block of existing.results) await this.client.blocks.delete(...)
DeleteBlock ==
    \E c \in DOMAIN calls :
        /\ calls[c].pc = "update.delete"
        /\ LET call == calls[c]
               id   == call.existing[call.delIdx].id
               got  == [call EXCEPT
                           !.delIdx = @ + 1,
                           !.requests = Append(@, Request("delete", id, None, 0, NoAnswer))]
           IN  /\ store' = StoreDelete(store, id)
               /\ calls' = [calls EXCEPT ![c] =
                      IF call.delIdx = Len(call.existing) THEN AfterDeletes(got) ELSE got]
        /\ UNCHANGED <<store0, retryVars>>

\* await this.client.blocks.children.append({ block_id, children: newBlocks });
\* a request above the store's ceiling is refused and updatePage rejects
AppendBlocks ==
    \E c \in DOMAIN calls :
        /\ calls[c].pc = "update.append"
        /\ LET call == calls[c]
               ok   == StoreAccepts(Len(call.newBlocks))
           IN  /\ store' = IF ok THEN StoreAppend(store, call.pageId, call.newBlocks)
                           ELSE store
               /\ calls' = [calls EXCEPT ![c] =
                      [call EXCEPT
                          !.pc = IF ok THEN "update.retrieve" ELSE "failed",
                          !.requests = Append(@, Request("append", call.pageId, None,
                                                         Len(call.newBlocks), NoAnswer))]]
        /\ UNCHANGED <<store0, retryVars>>

\* const page = await this.client.pages.retrieve({ page_id }); return pageToResult(page)
RetrievePage ==
    \E c \in DOMAIN calls :
        /\ calls[c].pc = "update.retrieve"
        /\ LET call == calls[c]
           IN  calls' = [calls EXCEPT ![c] =
                   [call EXCEPT
                       !.pc = "done",
                       !.result = Some(pageToResult(call.pageId, store.properties)),
                       !.requests = Append(@, Request("pages.retrieve", call.pageId, None,
                                                      0, NoAnswer))]]
        /\ UNCHANGED <<store, store0, retryVars>>

\* ---- createPage ----

\* the properties createPage sends: buildProperties(args.properties) or {},
\* with Name set from the title when there is a title and no Name yet
CreateProperties(args) ==
    LET properties == IF HasProperties(args) THEN buildProperties(FlatOf(args)) ELSE <<>>
    IN  IF args.title # <<>> /\ ~HasKey(properties, NameKey)
        THEN SetKey(properties, NameKey, PTitle(args.title))
        ELSE properties

\* if (args.content) createArgs.children = markdownToBlocks(args.content)
CreateChildren(args) ==
    IF HasContent(args) THEN markdownToBlocks(args.content[1]) ELSE <<>>

\* const page = await this.client.pages.create(createArgs); return pageToResult(page)
CreatePage ==
    \E c \in DOMAIN calls :
        /\ calls[c].pc = "create"
        /\ LET call       == calls[c]
               properties == CreateProperties(call.args)
               children   == CreateChildren(call.args)
               parentType == IF call.args.parentType = None THEN "page_id"
                             ELSE call.args.parentType[1]
               ok         == StoreAccepts(Len(children))
           IN  /\ store' = IF ok THEN StoreCreate(store, parentType, call.pageId,
                                                  properties, children)
                           ELSE store
               /\ calls' = [calls EXCEPT ![c] =
                      [call EXCEPT
                          !.pc = IF ok THEN "done" ELSE "failed",
                          !.newBlocks = children,
                          !.result = IF ok THEN Some(pageToResult(0 - store.nextId, properties))
                                     ELSE None,
                          !.requests = Append(@, Request("pages.create", call.pageId, None,
                                                         Len(children), NoAnswer))]]
        /\ UNCHANGED <<store0, retryVars>>

\* ---- getPage ----

\* the blocks are handed to blocksToMarkdown, which runs up to its first
\* fetchChildren (or to its end)
EnterMarkdown(call, parent, blocks) ==
    LET stack == Settle(Append(call.stack, Frame(parent, blocks, 1)))
    IN  [call EXCEPT !.handed = Append(@, [id |-> parent, blocks |-> blocks]),
                     !.stack = stack,
                     !.childCursor = None,
                     !.childBlocks = <<>>,
                     !.pc = IF stack = <<>> THEN "done" ELSE "get.children"]

\* do { res = await list({ block_id: pageId, page_size: 100, start_cursor: cursor });
\*      blocks.push(...res.results); cursor = ... } while (cursor)
ListPage ==
    \E c \in DOMAIN calls :
        /\ calls[c].pc = "get.list"
        /\ LET call   == calls[c]
               res    == StoreList(store, call.pageId, call.cursor, page_size)
               cursor == NextCursor(res)
               got    == [call EXCEPT
                             !.blocks = @ \o res.results,
                             !.cursor = cursor,
                             !.requests = Append(@, Request("list", call.pageId, call.cursor,
                                                            page_size, res))]
           IN  calls' = [calls EXCEPT ![c] =
                   IF cursor # None THEN got
                   ELSE EnterMarkdown(got, call.pageId, got.blocks)]
        /\ UNCHANGED <<store, store0, retryVars>>

\* fetchChildren(blockId), for the block the top activation is at: the same
\* loop, on childCursor and childBlocks; its result is rendered at indent + 1
FetchChildren ==
    \E c \in DOMAIN calls :
        /\ calls[c].pc = "get.children"
        /\ LET call    == calls[c]
               top     == call.stack[Len(call.stack)]
               blockId == top.blocks[top.idx].id
               res     == StoreList(store, blockId, call.childCursor, page_size)
               cursor  == NextCursor(res)
               got     == [call EXCEPT
                              !.childBlocks = @ \o res.results,
                              !.childCursor = cursor,
                              !.requests = Append(@, Request("list", blockId, call.childCursor,
                                                             page_size, res))]
           IN  calls' = [calls EXCEPT ![c] =
                   IF cursor # None THEN got
                   ELSE EnterMarkdown(got, blockId, got.childBlocks)]
        /\ UNCHANGED <<store, store0, retryVars>>

\* ---- the calls the client is driven with ----

\* Array.from({ length: n }, (_, i) => `L${i}`).join("\n\n"), the lines
\* from a to b, computed by halves
RECURSIVE ParagraphLines(_, _)
ParagraphLines(a, b) ==
    IF a > b THEN <<>>
    ELSE IF a = b THEN <<"L">> \o NatToChars(a)
    ELSE LET mid == (a + b) \div 2
         IN  ParagraphLines(a, mid) \o <<"\n", "\n">> \o ParagraphLines(mid + 1, b)

Paragraphs(n) == ParagraphLines(1, n)

\* "# T\n- a **b**\n\ntext"
SmallDocument ==
    <<"#", " ", "T", "\n", "-", " ", "a", " ", "*", "*", "b", "*", "*", "\n",
      "\n", "t", "e", "x", "t">>

NewTitle == <<"N", "e", "w">>

StatusKey == <<"S", "t", "a", "t", "u", "s">>

\* the flat property maps of the calls: { Name: "New" }, { Status: 3 }, {}
FlatMaps ==
    { <<[key |-> NameKey, value |-> VString(NewTitle)]>>,
      <<[key |-> StatusKey, value |-> VNumber(3)]>>,
      <<>> }

ContentValues ==
    { None, Some(<<>>), Some(<<" ">>), Some(SmallDocument),
      Some(Paragraphs(MAX_CHILDREN)), Some(Paragraphs(MaxContentBlocks)) }

ModeValues == { None, Some("append"), Some("replace") }

TopCounts == { 0, 1, 2, page_size, page_size + 1, MaxTopBlocks }

ChildCounts == { 0, 1, page_size + 1, MaxChildBlocks }

UpdateScenarios ==
    { [op |-> "updatePage", tree |-> StoreTree(n, 0, 0, FALSE),
       args |-> Args(properties, content, mode, <<>>, None)] :
        n \in TopCounts,
        properties \in {None} \cup { Some(f) : f \in FlatMaps },
        content \in ContentValues,
        mode \in ModeValues }

CreateScenarios ==
    { [op |-> "createPage", tree |-> StoreTree(1, 0, 0, FALSE),
       args |-> Args(properties, content, None, title, parentType)] :
        properties \in {None} \cup { Some(f) : f \in FlatMaps },
        content \in ContentValues,
        title \in { <<>>, NewTitle },
        parentType \in { None, Some("database_id") } }

GetScenarios ==
    { [op |-> "getPage", tree |-> StoreTree(n, k, j, lastHasChild),
       args |-> Args(None, None, None, <<>>, None)] :
        n \in TopCounts, k \in ChildCounts, j \in {0, 1}, lastHasChild \in BOOLEAN }

Scenarios == UpdateScenarios \cup CreateScenarios \cup GetScenarios

InitClient ==
    /\ RetryIdle
    /\ \E sc \in Scenarios :
        /\ store = NewStore(sc.tree)
        /\ calls = <<NewCall(sc.op, PageId, sc.args)>>
    /\ store0 = store

NextClient ==
    \/ UpdateProperties
    \/ ListExisting
    \/ DeleteBlock
    \/ AppendBlocks
    \/ RetrievePage
    \/ CreatePage
    \/ ListPage
    \/ FetchChildren

SpecClient == InitClient /\ [][NextClient]_vars

\* ---- two updatePage calls on the same page, running concurrently ----

\* "a"
OneLine == <<"a">>

\* two calls with content: each awaits its store calls in turn, and the
\* other call may run between any two of them
InitConcurrent ==
    /\ RetryIdle
    /\ \E n \in {0, 1, 2}, first \in {OneLine, SmallDocument},
          second \in {OneLine, SmallDocument, <<" ">>},
          properties \in {None, Some(<<[key |-> NameKey, value |-> VString(NewTitle)]>>)},
          mode \in {None, Some("replace")} :
        /\ store = NewStore(StoreTree(n, 0, 0, FALSE))
        /\ calls = <<NewCall("updatePage", PageId,
                             Args(properties, Some(first), mode, <<>>, None)),
                     NewCall("updatePage", PageId,
                             Args(None, Some(second), mode, <<>>, None))>>
    /\ store0 = store

NextConcurrent ==
    \/ UpdateProperties
    \/ ListExisting
    \/ DeleteBlock
    \/ AppendBlocks
    \/ RetrievePage

SpecConcurrent == InitConcurrent /\ [][NextConcurrent]_vars

\* ---- the blocks the serializer is driven with ----

\* one span of the text c, without marks
Text(c) == <<PlainSpan(<<c>>)>>

\* the blocks of the tree by their identifiers.  Block 4 has children the
\* serializer is not told of, block 6 is said to have children and has
\* none, as is the table_row 8; the code of block 9 has two lines; 22 is of
\* a type the serializer does not know, 5 and 33 have no payload, 35 is a
\* table_row without cells; 212 to 215 are bookmarks and embeds with and
\* without a caption
TreeBlock(id) ==
    CASE id = 1 -> Block(1, "heading_1", FALSE, Some(Payload(Text("a"), None)))
      [] id = 2 -> Block(2, "bulleted_list_item", TRUE, Some(Payload(Text("b"), None)))
      [] id = 3 -> Block(3, "table", TRUE, Some(Payload(<<>>, None)))
      [] id = 4 -> Block(4, "code", FALSE, Some(Payload(Text("c"), Some(<<"j", "s">>))))
      [] id = 5 -> Block(5, "paragraph", FALSE, None)
      [] id = 6 -> Block(6, "to_do", TRUE, Some(Payload(Text("d"), None)))
      [] id = 7 -> Block(7, "table_row", FALSE,
                         Some([Payload(<<>>, None) EXCEPT !.cells = Some(<<Text("e")>>)]))
      [] id = 8 -> Block(8, "table_row", TRUE,
                         Some([Payload(<<>>, None) EXCEPT !.cells = Some(<<Text("p")>>)]))
      [] id = 9 -> Block(9, "code", FALSE,
                         Some(Payload(<<PlainSpan(<<"u", "\n", "v">>)>>, None)))
      [] id = 21 -> Block(21, "paragraph", TRUE, Some(Payload(Text("f"), None)))
      [] id = 22 -> Block(22, "unsupported", TRUE, Some(Payload(Text("g"), None)))
      [] id = 212 -> Block(212, "bookmark", FALSE,
                           Some([Payload(<<>>, None) EXCEPT !.caption = Text("q"),
                                                            !.url = <<"w">>]))
      [] id = 213 -> Block(213, "bookmark", FALSE,
                           Some([Payload(<<>>, None) EXCEPT !.url = <<"w">>]))
      [] id = 214 -> Block(214, "embed", FALSE,
                           Some([Payload(<<>>, None) EXCEPT !.caption = Text("q"),
                                                            !.url = <<"w">>]))
      [] id = 215 -> Block(215, "embed", FALSE,
                           Some([Payload(<<>>, None) EXCEPT !.url = <<"w">>]))
      [] id = 31 -> Block(31, "table_row", FALSE,
                          Some([Payload(<<>>, None) EXCEPT
                                   !.cells = Some(<<Text("h"), Text("i")>>)]))
      [] id = 32 -> Block(32, "table_row", FALSE,
                          Some([Payload(<<>>, None) EXCEPT
                                   !.cells = Some(<<Text("k"), Text("l")>>)]))
      [] id = 33 -> Block(33, "table_row", FALSE, None)
      [] id = 34 -> Block(34, "divider", FALSE, Some(Payload(<<>>, None)))
      [] id = 35 -> Block(35, "table_row", FALSE, Some(Payload(<<>>, None)))
      [] id = 36 -> Block(36, "table_row", FALSE,
                          Some([Payload(<<>>, None) EXCEPT !.cells = Some(<<Text("m")>>)]))
      [] OTHER -> Block(id, "quote", FALSE, Some(Payload(Text("n"), None)))

\* the blocks with the identifiers ids, in this order
TreeBlocks(ids) == [i \in 1..Len(ids) |-> TreeBlock(ids[i])]

\* what fetchChildren resolves with
Tree ==
    [children |-> [id \in {2, 3, 4, 21, 22} |->
                      CASE id = 2 -> TreeBlocks(<<21, 22>>)
                        [] id = 3 -> TreeBlocks(<<31, 32, 33, 34, 35, 36>>)
                        [] id = 4 -> TreeBlocks(<<41>>)
                        [] id = 21 -> TreeBlocks(<<211, 212, 213, 214, 215>>)
                        [] OTHER -> TreeBlocks(<<221, 33>>)]]

\* the members of a set of numbers in increasing order
Ascending(S) ==
    [i \in 1..Cardinality(S) |-> CHOOSE x \in S : Cardinality({ y \in S : y < x }) = i - 1]

TopBlockIds == {1, 2, 3, 4, 5, 6, 7, 9, 33}

OptionsValues == { None, Some([fetchChildren |-> FALSE]), Some([fetchChildren |-> TRUE]) }

MaxIndent == 1

\* one call of blocksToMarkdown or of blocksToMarkdownSync on some of the
\* blocks, in the order of their identifiers
InitSerializer ==
    /\ RetryIdle
    /\ store = Tree
    /\ store0 = store
    /\ \E ids \in SUBSET TopBlockIds, options \in OptionsValues, indent \in 0..MaxIndent,
          op \in {"blocksToMarkdown", "blocksToMarkdownSync"} :
        /\ op = "blocksToMarkdownSync" => options = None
        /\ calls = <<Invocation(op, TreeBlocks(Ascending(ids)), options, indent)>>

NextSerializer ==
    \/ RenderBlock
    \/ CallFetchChildren
    \/ ReturnMarkdown
    \/ RunSync

SpecSerializer == InitSerializer /\ [][NextSerializer]_vars

\* two calls of blocksToMarkdown by independent callers: each is suspended
\* at its awaits, and the other may run between any two of them
InitOverlap ==
    /\ RetryIdle
    /\ store = Tree
    /\ store0 = store
    /\ \E ids1 \in SUBSET {3, 8}, ids2 \in SUBSET {2, 3, 7},
          options \in {None, Some([fetchChildren |-> TRUE])}, indent \in 0..MaxIndent :
        calls = <<Invocation("blocksToMarkdown", TreeBlocks(Ascending(ids1)),
                             Some([fetchChildren |-> TRUE]), 0),
                  Invocation("blocksToMarkdown", TreeBlocks(Ascending(ids2)),
                             options, indent)>>

NextOverlap ==
    \/ RenderBlock
    \/ CallFetchChildren
    \/ ReturnMarkdown

SpecOverlap == InitOverlap /\ [][NextOverlap]_vars

\* ---- the functions of the library, called on their own ----

\* a call of the function op on input: it returns at once
Apply(op, input) == [op |-> op, input |-> input, pc |-> "call", result |-> None]

\* a block of markdownToBlocks as the serializer reads it: block[type] is
\* its payload, it has no id and no has_children
AsBlock(parsed) ==
    Block(0, parsed.type, FALSE, Some(Payload(parsed.rich_text, parsed.language)))

\* markdownToBlocks(markdown); the blocks the first call returns are handed
\* to blocksToMarkdownSync
CallMarkdownToBlocks ==
    \E c \in DOMAIN calls :
        /\ calls[c].pc = "call"
        /\ calls[c].op = "markdownToBlocks"
        /\ LET blocks == markdownToBlocks(calls[c].input)
               parsed == [calls EXCEPT ![c] = [calls[c] EXCEPT !.pc = "done",
                                                               !.result = Some(blocks)]]
           IN  calls' = IF Len(calls) = 1
                        THEN Append(parsed,
                                    Apply("blocksToMarkdownSync",
                                          [i \in 1..Len(blocks) |-> AsBlock(blocks[i])]))
                        ELSE parsed
        /\ UNCHANGED <<store, store0, retryVars>>

\* blocksToMarkdownSync(blocks); the Markdown it returns is handed to
\* markdownToBlocks
CallBlocksToMarkdownSync ==
    \E c \in DOMAIN calls :
        /\ calls[c].pc = "call"
        /\ calls[c].op = "blocksToMarkdownSync"
        /\ LET md == blocksToMarkdownSync(calls[c].input, 0)
           IN  calls' = Append([calls EXCEPT ![c] = [calls[c] EXCEPT !.pc = "done",
                                                                    !.result = Some(md)]],
                               Apply("markdownToBlocks", md))
        /\ UNCHANGED <<store, store0, retryVars>>

\* lines of documents with fences: the fences with and without a language,
\* lines that would be a heading, marked text or plain text outside a
\* fence, the empty line
FenceLines ==
    { <<Backtick, Backtick, Backtick>>, <<Backtick, Backtick, Backtick, "j", "s">>,
      <<"#", " ", "h">>, <<"*", "*", "b", "*", "*">>, <<"x">>, <<>> }

\* lines of documents with markers: the markers of headings, list items and
\* quotes with a text, with no text, with a carriage return after the
\* text, and lines that are close to them
MarkerLines ==
    { <<"#", " ", "a">>, <<"#", "#", " ", "*", "b", "*">>, <<"#", "#", "#", " ", "c">>,
      <<"-", " ", "d">>, <<"*", " ", "e">>, <<"1", "2", ".", " ", "f">>,
      <<">", " ", "g">>, <<"#", " ">>, <<"#", "#", " ">>, <<"#", "#", "#", " ">>,
      <<"-", " ">>, <<"*", " ">>, <<"3", ".", " ">>, <<"#", " ", "a", "\r">>,
      <<Backtick, Backtick, Backtick>>, <<"-", "-", "-">>,
      <<"#", "#", "#", "#", " ", "h">> }

MaxFenceLines == 4
MaxMarkerLines == 2

\* the sequences of at most n members of S
SeqsUpTo(S, n) == UNION { [1..k -> S] : k \in 0..n }

\* the documents markdownToBlocks is called with
Documents ==
    { JoinLines(ls) : ls \in SeqsUpTo(FenceLines, MaxFenceLines)
                              \cup SeqsUpTo(MarkerLines, MaxMarkerLines) }

\* richTextToMarkdown(richTexts); its caller hands the string it returns to
\* parseInlineFormatting
CallRichTextToMarkdown ==
    \E c \in DOMAIN calls :
        /\ calls[c].pc = "call"
        /\ calls[c].op = "richTextToMarkdown"
        /\ LET md == richTextToMarkdown(calls[c].input)
           IN  calls' = Append([calls EXCEPT ![c] = [calls[c] EXCEPT !.pc = "done",
                                                                    !.result = Some(md)]],
                               Apply("parseInlineFormatting", md))
        /\ UNCHANGED <<store, store0, retryVars>>

\* parseInlineFormatting(text)
CallParseInlineFormatting ==
    \E c \in DOMAIN calls :
        /\ calls[c].pc = "call"
        /\ calls[c].op = "parseInlineFormatting"
        /\ calls' = [calls EXCEPT ![c] =
               [calls[c] EXCEPT !.pc = "done",
                                !.result = Some(parseInlineFormatting(calls[c].input))]]
        /\ UNCHANGED <<store, store0, retryVars>>

\* a span of text with one of the styles, or with the link target "u"
StyledSpan(text, style) ==
    CASE style = "bold" -> [PlainSpan(text) EXCEPT !.annotations.bold = TRUE]
      [] style = "italic" -> [PlainSpan(text) EXCEPT !.annotations.italic = TRUE]
      [] style = "bold+italic" -> [PlainSpan(text) EXCEPT !.annotations.bold = TRUE,
                                                          !.annotations.italic = TRUE]
      [] style = "strikethrough" -> [PlainSpan(text) EXCEPT !.annotations.strikethrough = TRUE]
      [] style = "code" -> [PlainSpan(text) EXCEPT !.annotations.code = TRUE]
      [] style = "link" -> [PlainSpan(text) EXCEPT !.link = Some(<<"u">>)]
      [] OTHER -> PlainSpan(text)

\* the spans richTextToMarkdown is called with: "a" in every style, a second
\* plain and a second bold text, a plain asterisk, a span without text, a
\* link whose target holds a closing parenthesis
SpanValues ==
    { StyledSpan(<<"a">>, style) :
          style \in {"plain", "bold", "italic", "bold+italic", "strikethrough", "code", "link"} }
    \cup { PlainSpan(<<"b">>), StyledSpan(<<"b">>, "bold"), PlainSpan(<<"*">>), PlainSpan(<<>>),
           [PlainSpan(<<"a">>) EXCEPT !.link = Some(<<"u", ")", "v">>)] }

MaxSpans == 3

\* buildProperties(flat)
CallBuildProperties ==
    \E c \in DOMAIN calls :
        /\ calls[c].pc = "call"
        /\ calls[c].op = "buildProperties"
        /\ calls' = [calls EXCEPT ![c] =
               [calls[c] EXCEPT !.pc = "done",
                                !.result = Some(buildProperties(calls[c].input))]]
        /\ UNCHANGED <<store, store0, retryVars>>

\* the entries of the flat maps: a value of every type, absent values, the
\* date keys of two properties, a date key with a field that is none of
\* start, end and is_datetime, and a plain key with the name of a date
FlatEntries ==
    { [key |-> NameKey, value |-> VString(NewTitle)],
      [key |-> <<"T", "a", "g", "s">>, value |-> VArray(<<VString(<<"a">>), VNumber(7)>>)],
      [key |-> <<"S", "c", "o", "r", "e">>, value |-> VNumber(3)],
      [key |-> <<"D", "o", "n", "e">>, value |-> VBoolean(TRUE)],
      [key |-> <<"N", "o", "t", "e">>, value |-> VString(<<"x">>)],
      [key |-> <<"N", "o", "t", "e">>, value |-> VNull],
      [key |-> <<"S", "c", "o", "r", "e">>, value |-> VUndefined],
      [key |-> <<"S", "t", "a", "t", "u", "s">>, value |-> VObject(<<"s">>)],
      [key |-> <<"d", "a", "t", "e", ":", "D", "u", "e", ":", "s", "t", "a", "r", "t">>,
       value |-> VString(<<"2", "0", "2", "6">>)],
      [key |-> <<"d", "a", "t", "e", ":", "D", "u", "e", ":", "e", "n", "d">>,
       value |-> VString(<<"2", "0", "2", "7">>)],
      [key |-> <<"d", "a", "t", "e", ":", "D", "u", "e", ":", "i", "s", "_", "d", "a", "t", "e", "t", "i", "m", "e">>,
       value |-> VBoolean(TRUE)],
      [key |-> <<"d", "a", "t", "e", ":", "D", "u", "e", ":", "t", "z">>,
       value |-> VString(<<"U", "T", "C">>)],
      [key |-> <<"D", "u", "e">>, value |-> VNumber(3)],
      [key |-> <<"d", "a", "t", "e", ":", "A", "t", ":", "s", "t", "a", "r", "t">>,
       value |-> VNull] }

MaxEntries == 3

\* extractNotionId(input); what the first call returns is handed to a second
\* call
CallExtractNotionId ==
    \E c \in DOMAIN calls :
        /\ calls[c].pc = "call"
        /\ calls[c].op = "extractNotionId"
        /\ LET id == extractNotionId(calls[c].input)
               settled == [calls EXCEPT ![c] = [calls[c] EXCEPT !.pc = "done",
                                                                !.result = Some(id)]]
           IN  calls' = IF Len(calls) = 1
                        THEN Append(settled, Apply("extractNotionId", id))
                        ELSE settled
        /\ UNCHANGED <<store, store0, retryVars>>

\* the characters of hex with a dash after each of the offsets
Dashed(hex, offsets) ==
    LET upto[i \in 0..Len(hex)] ==
            IF i = 0 THEN <<>>
            ELSE upto[i - 1] \o <<hex[i]>> \o (IF i \in offsets THEN <<"-">> ELSE <<>>)
    IN  upto[Len(hex)]

HexStrings ==
    { <<"a", "b", "c", "1", "2", "3", "d", "e", "f", "4", "5", "6", "7", "8", "9", "0", "a", "b", "c", "d", "e", "f", "1", "2", "3", "4", "5", "6", "7", "8", "9", "0">>,
      <<"A", "B", "C", "1", "2", "3", "D", "E", "F", "4", "5", "6", "7", "8", "9", "0", "A", "B", "C", "D", "E", "F", "1", "2", "3", "4", "5", "6", "7", "8", "9", "0">>,
      <<"0", "1", "2", "3", "4", "5", "6", "7", "8", "9", "a", "b", "c", "d", "e", "f", "A", "B", "C", "D", "E", "F", "0", "1", "2", "3", "4", "5", "6", "7", "8", "9">> }

\* where the dashes stand: nowhere, as in a UUID, and in other places
DashOffsets == { {}, {8, 12, 16, 20}, {8}, {8, 12, 16}, {4, 8}, {16}, {8, 12, 16, 20, 28} }

\* the whitespace around the input
Paddings == { <<>>, <<" ", " ">>, <<"\t", "\n">> }

\* the inputs of extractNotionId: the identifiers with their dashes and
\* paddings, URLs of pages, a title with an identifier, runs of 31 and of 33
\* hex characters, a text without an identifier, the empty string, URLs
\* with a tab or a space in the path, without an identifier, with the
\* identifier before the last segment, with a space in the host, and a text
\* and an empty text with whitespace around them
IdInputs ==
    { pad \o Dashed(hex, offsets) \o pad :
          hex \in HexStrings, offsets \in DashOffsets, pad \in Paddings }
    \cup { <<"n", "o", "t", "-", "a", "-", "v", "a", "l", "i", "d", "-", "i", "d">>,
           <<>>,
           <<"h", "t", "t", "p", "s", ":", "/", "/", "w", "w", "w", ".", "n", "o", "t", "i", "o", "n", ".", "s", "o", "/", "w", "o", "r", "k", "s", "p", "a", "c", "e", "/", "P", "a", "g", "e", "-", "T", "i", "t", "l", "e", "-", "a", "b", "c", "1", "2", "3", "d", "e", "f", "4", "5", "6", "7", "8", "9", "0", "a", "b", "c", "d", "e", "f", "1", "2", "3", "4", "5", "6", "7", "8", "9", "0">>,
           <<"h", "t", "t", "p", "s", ":", "/", "/", "n", "o", "t", "i", "o", "n", ".", "s", "o", "/", "a", "b", "c", "1", "2", "3", "d", "e", "f", "4", "5", "6", "7", "8", "9", "0", "a", "b", "c", "d", "e", "f", "1", "2", "3", "4", "5", "6", "7", "8", "9", "0", "?", "v", "=", "x", "x", "x">>,
           <<"h", "t", "t", "p", "s", ":", "/", "/", "n", "o", "t", "i", "o", "n", ".", "s", "o", "/", "A", "B", "C", "1", "2", "3", "D", "E", "F", "4", "5", "6", "7", "8", "9", "0", "A", "B", "C", "D", "E", "F", "1", "2", "3", "4", "5", "6", "7", "8", "9", "0", "/">>,
           <<"h", "t", "t", "p", "s", ":", "/", "/", "n", "o", "t", "i", "o", "n", ".", "s", "o", "/", "p", "a", "g", "e", "#", "a", "b", "c", "1", "2", "3", "d", "e", "f", "4", "5", "6", "7", "8", "9", "0", "a", "b", "c", "d", "e", "f", "1", "2", "3", "4", "5", "6", "7", "8", "9", "0">>,
           <<"P", "a", "g", "e", "-", "T", "i", "t", "l", "e", "-", "a", "b", "c", "1", "2", "3", "d", "e", "f", "4", "5", "6", "7", "8", "9", "0", "a", "b", "c", "d", "e", "f", "1", "2", "3", "4", "5", "6", "7", "8", "9", "0">>,
           <<"a", "b", "c", "1", "2", "3", "d", "e", "f", "4", "5", "6", "7", "8", "9", "0", "a", "b", "c", "d", "e", "f", "1", "2", "3", "4", "5", "6", "7", "8", "9">>,
           <<"a", "b", "c", "1", "2", "3", "d", "e", "f", "4", "5", "6", "7", "8", "9", "0", "a", "b", "c", "d", "e", "f", "1", "2", "3", "4", "5", "6", "7", "8", "9", "0", "f">>,
           <<"-", "a", "b", "c", "1", "2", "3", "d", "e", "f", "4", "5", "6", "7", "8", "9", "0", "a", "b", "c", "d", "e", "f", "1", "2", "3", "4", "5", "6", "7", "8", "9", "0">>,
           <<"h", "t", "t", "p", "s", ":", "/", "/", "n", "o", "t", "i", "o", "n", ".", "s", "o", "/", "a", "b", "c", "1", "2", "3", "d", "e", "f", "4", "5", "6", "7", "8", "9", "0", "\t", "a", "b", "c", "d", "e", "f", "1", "2", "3", "4", "5", "6", "7", "8", "9", "0">>,
           <<"h", "t", "t", "p", "s", ":", "/", "/", "n", "o", "t", "i", "o", "n", ".", "s", "o", "/", "p", " ", "0", "1", "2", "3", "4", "5", "6", "7", "8", "9", "a", "b", "c", "d", "e", "f", "0", "1", "2", "3", "4", "5", "6", "7", "8", "9", "a", "b", "c", "d">>,
           <<"h", "t", "t", "p", "s", ":", "/", "/", "n", "o", "t", "i", "o", "n", ".", "s", "o", "/", "p", "a", "g", "e">>,
           <<"h", "t", "t", "p", "s", ":", "/", "/", "n", "o", "t", "i", "o", "n", ".", "s", "o", "/", "a", "b", "c", "1", "2", "3", "d", "e", "f", "4", "5", "6", "7", "8", "9", "0", "a", "b", "c", "d", "e", "f", "1", "2", "3", "4", "5", "6", "7", "8", "9", "0", "/", "e", "d", "i", "t">>,
           <<"h", "t", "t", "p", "s", ":", "/", "/", "n", "o", "t", " ", "i", "o", "n", ".", "s", "o", "/", "a", "b", "c", "1", "2", "3", "d", "e", "f", "4", "5", "6", "7", "8", "9", "0", "a", "b", "c", "d", "e", "f", "1", "2", "3", "4", "5", "6", "7", "8", "9">>,
           <<" ", " ", "n", "o", "t", " ", "a", "n", " ", "i", "d", "\n">>,
           <<" ", "\t">> }

\* the flat maps buildProperties is called with: the entries of an object
\* in their order, no key twice
FlatObjects ==
    { m \in SeqsUpTo(FlatEntries, MaxEntries) :
          \A i, j \in 1..Len(m) : m[i].key = m[j].key => i = j }

\* the pieces the lines of parseInlineFormatting are made of: a letter, the
\* delimiters of the tokens, the two halves of a link, a lone bracket
Pieces ==
    { <<"a">>, <<"*">>, <<"*", "*">>, <<"*", "*", "*">>, <<"~", "~">>, <<Backtick>>,
      <<"[", "a", "]">>, <<"(", "u", ")">>, <<"]">> }

MaxPieces == 4

\* the lines of up to MaxPieces pieces
InlineLines == { Join(ps, <<>>) : ps \in SeqsUpTo(Pieces, MaxPieces) }

\* one function of the library is called, with one of its inputs
InitLibrary ==
    /\ RetryIdle
    /\ store = NewStore(<<>>)
    /\ store0 = store
    /\ \/ \E d \in Documents : calls = <<Apply("markdownToBlocks", d)>>
       \/ \E spans \in SeqsUpTo(SpanValues, MaxSpans) :
              calls = <<Apply("richTextToMarkdown", spans)>>
       \/ \E flat \in FlatObjects : calls = <<Apply("buildProperties", flat)>>
       \/ \E input \in IdInputs : calls = <<Apply("extractNotionId", input)>>
       \/ \E line \in InlineLines : calls = <<Apply("parseInlineFormatting", line)>>

NextLibrary ==
    \/ CallMarkdownToBlocks
    \/ CallRichTextToMarkdown
    \/ CallParseInlineFormatting
    \/ CallBuildProperties
    \/ CallExtractNotionId
    \/ CallBlocksToMarkdownSync

SpecLibrary == InitLibrary /\ [][NextLibrary]_vars

\* ---- markdownToBlocks, one turn of its loop at a time ----

\* a call of markdownToBlocks(markdown): const lines, const blocks, let i
\* (the lines are counted from 1)
Scanner(markdown) ==
    [op |-> "markdownToBlocks", input |-> markdown, pc |-> "scan",
     lines |-> SplitLines(markdown), i |-> 1, blocks |-> <<>>, result |-> None]

\* one turn of while (i < lines.length): an opening fence takes the lines up
\* to its closing fence and pushes a code block, any other line is taken
\* alone and pushes the block of its branch, if the branch has one
\* (the turn of ScanLines at i on the lines up to the last line it takes)
ScanStep ==
    \E c \in DOMAIN calls :
        /\ calls[c].pc = "scan"
        /\ calls[c].i <= Len(calls[c].lines)
        /\ LET call  == calls[c]
               upto  == IF IsOpeningFence(call.lines[call.i])
                        THEN FenceEnd(call.lines, call.i + 1) ELSE call.i
           IN  calls' = [calls EXCEPT ![c] =
                   [call EXCEPT !.i = upto + 1,
                                !.blocks = ScanLines(SubSeq(call.lines, 1, Min(upto, Len(call.lines))),
                                                     call.i, call.blocks)]]
        /\ UNCHANGED <<store, store0, retryVars>>

\* return blocks
ScanReturn ==
    \E c \in DOMAIN calls :
        /\ calls[c].pc = "scan"
        /\ calls[c].i > Len(calls[c].lines)
        /\ calls' = [calls EXCEPT ![c] =
               [calls[c] EXCEPT !.pc = "done", !.result = Some(calls[c].blocks)]]
        /\ UNCHANGED <<store, store0, retryVars>>

\* markdownToBlocks is called with a document
InitScanner ==
    /\ RetryIdle
    /\ store = NewStore(<<>>)
    /\ store0 = store
    /\ \E d \in Documents : calls = <<Scanner(d)>>

NextScanner == ScanStep \/ ScanReturn

SpecScanner == InitScanner /\ [][NextScanner]_vars

(***************************************************************************)
(* Claims about withRetry (checked under SpecRetry)                        *)
(***************************************************************************)

\* The classification as the claims state it: a non-null object whose status
\* is the number 429 or a number >= 500.
ClaimRetryable(e) ==
    /\ e.kind = "object"
    /\ e.status.t = "number"
    /\ (e.status.v = 429 \/ e.status.v >= 500)

\* the i-th failure was followed by a retry (a delay, then possibly a call)
Retried(i) == i < Len(thrown) \/ rPc # "rejected"

\* C1: a rejection below the retry budget is retried if and only if the thrown
\* value is a non-null object whose status is the number 429 or a number >= 500;
\* any other rejection ends withRetry at once: no delay follows it, withRetry
\* rejects with that same value, and when it is the first rejection fn was
\* invoked exactly once and nothing was waited.
C1_RetryableIffStatus ==
    /\ \A i \in 1..Len(thrown) :
          (i - 1 < Options.maxRetries) => (ClaimRetryable(thrown[i]) <=> Retried(i))
    /\ \A i \in 1..Len(thrown) :
          ~ClaimRetryable(thrown[i]) =>
              /\ i = Len(thrown)
              /\ rPc = "rejected"
              /\ outcome = Some(Rejected(thrown[i]))
              /\ invocations = i
              /\ Len(waited) = i - 1
    /\ (thrown # <<>> /\ ~ClaimRetryable(thrown[1])) =>
          (invocations = 1 /\ waited = <<>> /\ chosen = <<>>)

C1_Witness ==
    /\ rPc = "rejected"
    /\ Options.maxRetries > 0
    /\ invocations = 1
    /\ thrown = <<ErrObj(StatusNum(404), RaStr(<<"2">>))>>
    /\ waited = <<>>

AllRetryable == \A i \in 1..Len(thrown) : ClaimRetryable(thrown[i])

\* C2: when every invocation fails with a retryable error, withRetry invokes fn
\* exactly maxRetries + 1 times, waits exactly maxRetries times and never after
\* the last failure, and rejects with the most recent error unchanged; with
\* maxRetries = 0 that is one invocation and no wait.
C2_ExhaustedRetries ==
    AllRetryable =>
        /\ invocations <= Options.maxRetries + 1
        /\ Len(waited) <= Options.maxRetries
        /\ (rPc = "sleep" => Len(thrown) <= Options.maxRetries)
        /\ (Len(thrown) = Options.maxRetries + 1 => rPc = "rejected")
        /\ (rPc = "rejected" =>
               /\ invocations = Options.maxRetries + 1
               /\ Len(thrown) = Options.maxRetries + 1
               /\ Len(waited) = Options.maxRetries
               /\ outcome = Some(Rejected(thrown[Len(thrown)])))

C2_Witness ==
    /\ rPc = "rejected"
    /\ AllRetryable
    /\ Options.maxRetries = 2
    /\ invocations = 3
    /\ Len(waited) = 2
    /\ thrown[3] = ErrObj(StatusNum(429), RaStr(<<"2">>))

\* the delay the claims state for a failure without a usable retry-after
\* header at attempt n: baseDelayMs * 2^n, capped at maxDelayMs
ClaimBackoff(n) ==
    IF Options.baseDelayMs * (2 ^ n) <= Options.maxDelayMs
    THEN Options.baseDelayMs * (2 ^ n)
    ELSE Options.maxDelayMs

NoRetryAfter(e) == e.retryAfter.t \in {"noheaders", "absent"}

C3_State ==
    rPc = "resolved" =>
        /\ returned # None
        /\ outcome = Some(Resolved(returned[1]))
        /\ AllRetryable
        /\ Len(thrown) <= Options.maxRetries
        /\ invocations = Len(thrown) + 1
        /\ Len(waited) = Len(thrown)
        /\ \A i \in 1..Len(thrown) :
              /\ waited[i] = CapDelay(ChosenDelay(thrown[i], i - 1, Options),
                                      Options.maxDelayMs)
              /\ NoRetryAfter(thrown[i]) => waited[i] = ClaimBackoff(i - 1)
        /\ (Len(thrown) = 2 /\ NoRetryAfter(thrown[1]) /\ NoRetryAfter(thrown[2])) =>
              (invocations = 3 /\ SumSeq(waited) = ClaimBackoff(0) + ClaimBackoff(1))

\* C3: after k retryable failures in a row (k <= maxRetries) and a success,
\* withRetry resolves with that success value, has invoked fn exactly k + 1
\* times and never invokes it again, and the delays it waited are the k delays
\* computed for attempts 0..k-1 (two 429 failures, then success: 3 invocations
\* and a total delay of d0 + d1).
C3_SuccessAfterRetries ==
    /\ []C3_State
    /\ [][rPc = "resolved" => (invocations' = invocations /\ waited' = waited)]_vars

C3_Witness ==
    /\ rPc = "resolved"
    /\ Len(thrown) = 2
    /\ thrown[1] = ErrObj(StatusNum(429), RaNoHeaders)
    /\ thrown[2] = ErrObj(StatusNum(429), RaNoHeaders)
    /\ invocations = 3
    /\ Options.baseDelayMs = 1000
    /\ SumSeq(waited) = 3000

\* the retry-after header of e, read as the claim reads it: a string that
\* parses as a non-negative number of seconds
ClaimHeaderSeconds(e) ==
    /\ e.kind = "object"
    /\ e.retryAfter.t = "string"
    /\ ~parseFloat(e.retryAfter.s).nan
    /\ parseFloat(e.retryAfter.s).mantissa >= 0

\* C4: before retry attempt n the delay chosen, before capping, is the
\* retry-after header in seconds times 1000 when the header parses as a
\* non-negative number of seconds, and baseDelayMs * 2^n in every other case.
C4_DelayBeforeCap ==
    \A i \in 1..Len(chosen) :
        chosen[i] = IF ClaimHeaderSeconds(thrown[i])
                    THEN SecondsToMs(parseFloat(thrown[i].retryAfter.s))
                    ELSE Options.baseDelayMs * (2 ^ (i - 1))

\* C5: every delay withRetry waits is at most maxDelayMs, whether it came from
\* a retry-after header or from the exponential backoff.
C5_DelayCapped ==
    /\ \A i \in 1..Len(waited) : waited[i] <= Options.maxDelayMs
    /\ (rPc = "sleep" => pendingDelay <= Options.maxDelayMs)

C5_Witness ==
    /\ Len(waited) = 2
    /\ thrown[1] = ErrObj(StatusNum(429), RaStr(<<"6", "0">>))
    /\ chosen[1] = 60000 /\ waited[1] = 30000
    /\ NoRetryAfter(thrown[2])
    /\ Options.baseDelayMs = 1000 /\ Options.maxDelayMs = 30000
    /\ chosen[2] = 2000 /\ waited[2] = 2000

(***************************************************************************)
(* Claims about NotyClient                                                 *)
(***************************************************************************)

\* the number of requests of the call to one endpoint of the store
CountApi(call, api) ==
    Cardinality({ i \in DOMAIN call.requests : call.requests[i].api = api })

\* the identifiers of the blocks of the page in a store
PageBlockIds(st) == { ChildrenOf(st, PageId)[i].id : i \in DOMAIN ChildrenOf(st, PageId) }

\* the blocks of the page the store created, in their order
AppendedBlocks(st) ==
    LET Fresh(b) == b.id < 0
        kept == SelectSeq(ChildrenOf(st, PageId), Fresh)
    IN  [i \in DOMAIN kept |-> kept[i].block]

\* the call was given a content: a string that is not empty
GivenContent(call) == call.args.content # None /\ call.args.content[1] # <<>>

\* updatePage is past its deletions
PastDeletions(call) == call.pc \in {"update.append", "update.retrieve", "done", "failed"}

\* the number of listing pages of n blocks: one when there is none
ListingPages(n) == IF n = 0 THEN 1 ELSE (n + page_size - 1) \div page_size

\* C6: updatePage with content in replace mode (the default) deletes every
\* existing block of the page before it appends, also when the page has more
\* than 100 blocks: it lists the page until has_more is false and issues one
\* delete per listed block (150 blocks: 2 list calls and 150 deletes).
C6_ReplaceDeletesEveryBlock ==
    \A c \in DOMAIN calls :
        (/\ calls[c].op = "updatePage"
         /\ GivenContent(calls[c])
         /\ calls[c].args.mode # Some("append")
         /\ PastDeletions(calls[c]))
        => /\ CountApi(calls[c], "delete") = Len(ChildrenOf(store0, PageId))
           /\ CountApi(calls[c], "list") = ListingPages(Len(ChildrenOf(store0, PageId)))
           /\ PageBlockIds(store) \cap PageBlockIds(store0) = {}

\* C7: the blocks parsed from Markdown go to the store in batches of at most
\* 100 blocks per request (the append of updatePage, the children of
\* createPage), and the batches together are all the parsed blocks in order.
C7_BatchesOfAtMost100 ==
    \A c \in DOMAIN calls :
        /\ \A i \in DOMAIN calls[c].requests :
              calls[c].requests[i].api \in {"append", "pages.create"}
                  => calls[c].requests[i].size <= MAX_CHILDREN
        /\ (calls[c].op = "updatePage" /\ GivenContent(calls[c])
                /\ calls[c].pc \in {"update.retrieve", "done", "failed"})
              => AppendedBlocks(store) = markdownToBlocks(calls[c].args.content[1])
        /\ (calls[c].op = "createPage" /\ GivenContent(calls[c])
                /\ calls[c].pc \in {"done", "failed"})
              => /\ Len(store.created) = 1
                 /\ store.created[1].children = markdownToBlocks(calls[c].args.content[1])

\* C8: updatePage with content and mode "append" deletes no block of the
\* page and only appends the parsed blocks.
C8_AppendDeletesNothing ==
    \A c \in DOMAIN calls :
        (/\ calls[c].op = "updatePage"
         /\ GivenContent(calls[c])
         /\ calls[c].args.mode = Some("append"))
        => /\ CountApi(calls[c], "delete") = 0
           /\ PageBlockIds(store0) \subseteq PageBlockIds(store)

\* C9: updatePage touches only what it was given.  With properties and no
\* content it issues no list, delete or append and the blocks are unchanged;
\* with content and no properties it issues no pages.update and the
\* properties are unchanged.
C9_TouchesOnlyWhatGiven ==
    \A c \in DOMAIN calls :
        calls[c].op = "updatePage" =>
            /\ (calls[c].args.properties # None /\ ~GivenContent(calls[c]))
                  => /\ CountApi(calls[c], "list") = 0
                     /\ CountApi(calls[c], "delete") = 0
                     /\ CountApi(calls[c], "append") = 0
                     /\ store.children = store0.children
            /\ (calls[c].args.properties = None /\ GivenContent(calls[c]))
                  => /\ CountApi(calls[c], "pages.update") = 0
                     /\ store.properties = store0.properties

C9_Witness ==
    /\ calls[1].op = "updatePage"
    /\ calls[1].pc = "done"
    /\ calls[1].args.properties = None
    /\ calls[1].args.content = Some(SmallDocument)
    /\ CountApi(calls[1], "delete") = 2
    /\ CountApi(calls[1], "append") = 1
    /\ store.children # store0.children
    /\ store.properties = store0.properties

\* the complete listing of the children of id, as the store returns blocks
FullListing(st, id) ==
    [i \in 1..Len(ChildrenOf(st, id)) |-> Listed(st, ChildrenOf(st, id)[i])]

\* C10: getPage hands the serializer complete block lists.  For the page and
\* for every block whose children it fetches it asks for listing pages of 100
\* blocks, passes each response's next_cursor as the next start_cursor until
\* a response has has_more = false, and concatenates the results in order:
\* no block is dropped, duplicated or reordered, and the loop ends with the
\* first response that has has_more = false.
C10_CompleteListings ==
    \A c \in DOMAIN calls :
        calls[c].op = "getPage" =>
            /\ \A h \in DOMAIN calls[c].handed :
                  /\ calls[c].handed[h].blocks = FullListing(store, calls[c].handed[h].id)
                  /\ CountApi(calls[c], "list") >=
                         ListingPages(Len(ChildrenOf(store, calls[c].handed[h].id)))
            /\ \A i \in DOMAIN calls[c].requests :
                  LET r == calls[c].requests[i]
                  IN  /\ r.api = "list"
                      /\ r.size = 100
                      /\ (i = 1 => r.id = calls[c].pageId /\ r.start_cursor = None)
                      /\ i > 1 =>
                            LET q == calls[c].requests[i - 1]
                            IN  IF q.has_more
                                THEN r.id = q.id /\ r.start_cursor = q.next_cursor
                                     /\ r.start_cursor # None
                                ELSE r.id # q.id /\ r.start_cursor = None
            /\ calls[c].pc = "done" =>
                  /\ ~calls[c].requests[Len(calls[c].requests)].has_more
                  /\ \A h \in DOMAIN calls[c].handed :
                        Cardinality({ i \in DOMAIN calls[c].requests :
                                         calls[c].requests[i].id = calls[c].handed[h].id })
                            = ListingPages(Len(calls[c].handed[h].blocks))
                  /\ Len(calls[c].requests) =
                         SumSeq([h \in DOMAIN calls[c].handed |->
                                    ListingPages(Len(calls[c].handed[h].blocks))])

C10_Witness ==
    /\ calls[1].op = "getPage"
    /\ calls[1].pc = "done"
    /\ Len(calls[1].handed) = 4
    /\ Len(calls[1].handed[1].blocks) > page_size
    /\ calls[1].handed[2].id = 1
    /\ Len(calls[1].handed[2].blocks) > 2 * page_size
    /\ calls[1].handed[3].id = ChildId(1, 1)
    /\ Len(calls[1].handed[3].blocks) = 1
    /\ Len(calls[1].requests) = 7

(***************************************************************************)
(* Claims about concurrent calls (checked under SpecConcurrent)            *)
(***************************************************************************)

\* the blocks of the page, in their order
PageBlocks(st) == [i \in DOMAIN ChildrenOf(st, PageId) |-> ChildrenOf(st, PageId)[i].block]

\* the blocks a call's content parses to
ParsedOf(call) == markdownToBlocks(call.args.content[1])

BothDone == Len(calls) = 2 /\ calls[1].pc = "done" /\ calls[2].pc = "done"

LastOf(s, n) == SubSeq(s, Len(s) - n + 1, Len(s))

RECURSIVE DepthFirst(_, _, _)
DepthFirst(blocks, indent, fetch) ==
    IF blocks = <<>> THEN <<>>
    ELSE LET b == Head(blocks)
         IN  <<[kind |-> "block", id |-> b.id, indent |-> indent]>>
             \o (IF b.has_children /\ fetch
                 THEN <<[kind |-> "fetchChildren", id |-> b.id, indent |-> indent]>>
                      \o DepthFirst(ChildrenOf(store0, b.id), indent + 1, fetch)
                 ELSE <<>>)
             \o DepthFirst(Tail(blocks), indent, fetch)

\* the caller gave options with a fetchChildren callback
CallbackSupplied(call) == call.options # None /\ call.options[1].fetchChildren

\* the letters the texts of the tree are made of
IsLetter(ch) == ch \in {"a", "b", "c", "d", "e", "f", "g", "h", "i", "k", "l", "m", "n"}

\* the letters of the lines of the blocks a log names, in the log's order
RECURSIVE LettersOf(_)
LettersOf(events) ==
    IF events = <<>> THEN <<>>
    ELSE (IF Head(events).kind = "block"
          THEN SelectSeq(blockToMarkdown(TreeBlock(Head(events).id), 0), IsLetter)
          ELSE <<>>) \o LettersOf(Tail(events))

\* C12: blocksToMarkdown walks its blocks in their order and depth-first.
\* At every moment what an invocation has done is the beginning of the
\* depth-first walk of its blocks: fetchChildren is invoked only for a block
\* with has_children and only when the callback was supplied, with that
\* block's identifier, once, after the block was rendered and before its next
\* sibling, and the children are rendered one level deeper; without the
\* callback no child is rendered.  In the result the lines of the blocks
\* stand in the order of the walk.
C12_DepthFirstInOrder ==
    \A c \in DOMAIN calls :
        calls[c].op = "blocksToMarkdown" =>
            LET call == calls[c]
                walk == DepthFirst(call.blocks, call.indent, CallbackSupplied(call))
            IN  /\ Len(call.events) <= Len(walk)
                /\ call.events = SubSeq(walk, 1, Len(call.events))
                /\ call.pc = "done" =>
                       /\ call.events = walk
                       /\ SelectSeq(call.result[1], IsLetter) = LettersOf(walk)

\* an invocation with the callback has returned: it fetched the children of
\* block 2 and of its child 21, rendered 211 two levels deeper, and went on
\* with block 3 after them
C12_Witness ==
    \E c \in DOMAIN calls :
        /\ calls[c].op = "blocksToMarkdown"
        /\ calls[c].pc = "done"
        /\ CallbackSupplied(calls[c])
        /\ \E i, j, k \in DOMAIN calls[c].events :
              /\ i < j /\ j < k
              /\ calls[c].events[i] = [kind |-> "fetchChildren", id |-> 21,
                                       indent |-> calls[c].indent + 1]
              /\ calls[c].events[j] = [kind |-> "block", id |-> 211,
                                       indent |-> calls[c].indent + 2]
              /\ calls[c].events[k] = [kind |-> "block", id |-> 3,
                                       indent |-> calls[c].indent]
        /\ SelectSeq(calls[c].result[1], IsLetter) # <<>>

\* a block the serializer cannot render: its type is not one of the switch,
\* or block[type] is missing, or it is a table_row without cells
Unrenderable(block) ==
    \/ block.data = None
    \/ block.type \notin {"paragraph", "heading_1", "heading_2", "heading_3",
                          "bulleted_list_item", "numbered_list_item", "to_do", "toggle",
                          "code", "quote", "callout", "divider", "image", "table",
                          "table_row", "bookmark", "embed", "equation"}
    \/ block.type = "table_row" /\ block.data[1].cells = None

\* C13: a block whose type is not recognized, or whose payload is missing
\* (a table_row without its payload or without cells included), adds no line
\* to the lines of the activation that renders it, not even an empty one.
C13_UnrenderableAddsNoLine ==
    [][\A c \in DOMAIN calls :
          LET call == calls[c]
              d    == Len(call.stack)
          IN  (/\ call.pc = "loop"
               /\ call.stack[d].idx <= Len(call.stack[d].blocks)
               /\ Unrenderable(call.stack[d].blocks[call.stack[d].idx])
               /\ calls'[c] # call)
              => calls'[c].stack[d].lines = call.stack[d].lines]_vars

\* C14: what blocksToMarkdown and blocksToMarkdownSync return never ends with
\* a newline, and is the empty string for an empty list of blocks.
C14_NoTrailingNewline ==
    \A c \in DOMAIN calls :
        (calls[c].op \in {"blocksToMarkdown", "blocksToMarkdownSync"} /\ calls[c].pc = "done") =>
            LET md == calls[c].result[1]
            IN  /\ md # <<>> => md[Len(md)] # "\n"
                /\ calls[c].blocks = <<>> => md = <<>>

\* C23: every physical line of what a turn of the loop pushes for a block at
\* indent n begins with 2n spaces: the lines of a code block with its fences
\* and each line of its content, a table row and its separator.
C23_EveryLinePrefixed ==
    [][\A c \in DOMAIN calls :
          LET call == calls[c]
              d    == Len(call.stack)
          IN  (/\ call.pc = "loop"
               /\ call.stack[d].idx <= Len(call.stack[d].blocks)
               /\ calls'[c] # call)
              => \A k \in (Len(call.stack[d].lines) + 1)..Len(calls'[c].stack[d].lines) :
                     LET physical == SplitLines(calls'[c].stack[d].lines[k])
                     IN  \A p \in 1..Len(physical) :
                             HasAt(physical[p], 1, Prefix(call.stack[d].indent))]_vars

\* the cells of a table_row, none when its payload or its cells are missing
CellsOf(block) ==
    IF block.data = None \/ block.data[1].cells = None THEN <<>> ELSE block.data[1].cells[1]

\* C24: in a run of consecutive table_row blocks the first row, and only the
\* first, is followed at once by a separator row with one --- cell per cell
\* of that row; a block of any other type ends the run.  A turn of the loop
\* on a table_row pushes the row and the separator when the block before it
\* is no table_row, and the row alone when it is one.
C24_SeparatorAfterFirstRow ==
    [][\A c \in DOMAIN calls :
          LET call  == calls[c]
              d     == Len(call.stack)
              top   == call.stack[d]
          IN  (/\ call.pc = "loop"
               /\ top.idx <= Len(top.blocks)
               /\ top.blocks[top.idx].type = "table_row"
               /\ calls'[c] # call)
              => LET block  == top.blocks[top.idx]
                     first  == top.idx = 1 \/ top.blocks[top.idx - 1].type # "table_row"
                     pushed == SubSeq(calls'[c].stack[d].lines, Len(top.lines) + 1,
                                      Len(calls'[c].stack[d].lines))
                     sep    == Prefix(top.indent) \o <<"|", " ">>
                                   \o Join([i \in 1..Len(CellsOf(block)) |-> <<"-", "-", "-">>],
                                           <<" ", "|", " ">>)
                                   \o <<" ", "|">>
                 IN  IF first THEN Len(pushed) = 2 /\ pushed[2] = sep
                     ELSE Len(pushed) = 1]_vars

\* C25: a bookmark block and an embed block render as [label](url), the
\* label being the rendered caption when it is not empty and the url
\* otherwise.
C25_CaptionOrUrl ==
    [][\A c \in DOMAIN calls :
          LET call == calls[c]
              d    == Len(call.stack)
              top  == call.stack[d]
          IN  (/\ call.pc = "loop"
               /\ top.idx <= Len(top.blocks)
               /\ top.blocks[top.idx].type \in {"bookmark", "embed"}
               /\ top.blocks[top.idx].data # None
               /\ calls'[c] # call)
              => LET data    == top.blocks[top.idx].data[1]
                     caption == richTextToMarkdown(data.caption)
                 IN  calls'[c].stack[d].lines =
                         Append(top.lines,
                                Prefix(top.indent) \o <<"[">>
                                    \o (IF caption # <<>> THEN caption ELSE data.url)
                                    \o <<"]", "(">> \o data.url \o <<")">>)]_vars

\* C29: blocksToMarkdown called without a fetchChildren callback resolves
\* with exactly the string blocksToMarkdownSync returns for the same blocks
\* and the same indent, whatever the has_children flags of the blocks are.
C29_SameAsSync ==
    \A c \in DOMAIN calls :
        (/\ calls[c].op = "blocksToMarkdown"
         /\ calls[c].pc = "done"
         /\ ~CallbackSupplied(calls[c]))
        => calls[c].result = Some(blocksToMarkdownSync(calls[c].blocks, calls[c].indent))

\* blocksToMarkdown has resolved, without a callback and at indent 1, for a
\* list item and a table that have children and for a table row: the row
\* and its separator are in the result, the children are not
C29_Witness ==
    \E c \in DOMAIN calls :
        /\ calls[c].op = "blocksToMarkdown"
        /\ calls[c].pc = "done"
        /\ calls[c].options = Some([fetchChildren |-> FALSE])
        /\ calls[c].indent = 1
        /\ calls[c].blocks = TreeBlocks(<<2, 3, 7>>)
        /\ calls[c].result = Some(<<" ", " ", "-", " ", "b", "\n",
                                    " ", " ", "|", " ", "e", " ", "|", "\n",
                                    " ", " ", "|", " ", "-", "-", "-", " ", "|">>)

(***************************************************************************)
(* Claims about the library's functions (checked under SpecLibrary)        *)
(***************************************************************************)

\* a call of the function op that has returned
Returned(c, op) == calls[c].op = op /\ calls[c].pc = "done"

\* C15: markdownToBlocks scans with two states.  The first line of a document
\* that is three backticks and a run of word characters opens a fence; the
\* fence ends at the next line that is exactly three backticks, or at the end
\* of the input.  The blocks of the document are the blocks of the lines
\* before the fence, one code block with the language of the opening line
\* ("plain text" when it has none) whose one unstyled span is the lines of the
\* fence joined by newlines, as they are, and the blocks of what follows the
\* closing line.
C15_FenceScanner ==
    \A c \in DOMAIN calls :
        Returned(c, "markdownToBlocks") =>
            LET lines   == SplitLines(calls[c].input)
                opening == { p \in 1..Len(lines) :
                               /\ Len(lines[p]) >= 3
                               /\ SubSeq(lines[p], 1, 3) = <<Backtick, Backtick, Backtick>>
                               /\ \A k \in 4..Len(lines[p]) : lines[p][k] \in WordChars }
            IN  opening # {} =>
                    LET p       == Least(opening)
                        closing == { q \in (p + 1)..Len(lines) :
                                       lines[q] = <<Backtick, Backtick, Backtick>> }
                        q       == IF closing = {} THEN Len(lines) + 1 ELSE Least(closing)
                        lang    == IF Len(lines[p]) > 3 THEN SubSeq(lines[p], 4, Len(lines[p]))
                                   ELSE <<"p", "l", "a", "i", "n", " ", "t", "e", "x", "t">>
                    IN  calls[c].result[1] =
                            markdownToBlocks(JoinLines(SubSeq(lines, 1, p - 1)))
                            \o <<NotionBlock("code",
                                             <<PlainSpan(JoinLines(SubSeq(lines, p + 1, q - 1)))>>,
                                             Some(lang))>>
                            \o markdownToBlocks(JoinLines(SubSeq(lines, q + 1, Len(lines))))

\* markdownToBlocks has returned for a fence with a language around a line
\* that would be a heading, followed by a heading: one code block with the
\* line as it is, then the heading
C15_Witness ==
    \E c \in DOMAIN calls :
        /\ Returned(c, "markdownToBlocks")
        /\ calls[c].input = <<Backtick, Backtick, Backtick, "j", "s", "\n", "#", " ", "h", "\n", Backtick, Backtick, Backtick, "\n", "#", " ", "h">>
        /\ calls[c].result[1] =
               <<NotionBlock("code", <<PlainSpan(<<"#", " ", "h">>)>>, Some(<<"j", "s">>)),
                 NotionBlock("heading_1", <<PlainSpan(<<"h">>)>>, None)>>

\* the marker a line starts with, as the claim reads it: the type of the
\* block and the length of the marker, or the type "" when it starts with none
MarkerOf(line) ==
    LET StartsWith(m) == Len(line) >= Len(m) /\ SubSeq(line, 1, Len(m)) = m
        IsNumeral(ch) == ch \in {"0", "1", "2", "3", "4", "5", "6", "7", "8", "9"}
        digits        == Least({ n \in 0..Len(line) : n = Len(line) \/ ~IsNumeral(line[n + 1]) })
    IN  IF StartsWith(<<"#", " ">>) THEN [type |-> "heading_1", skip |-> 2]
        ELSE IF StartsWith(<<"#", "#", " ">>) THEN [type |-> "heading_2", skip |-> 3]
        ELSE IF StartsWith(<<"#", "#", "#", " ">>) THEN [type |-> "heading_3", skip |-> 4]
        ELSE IF StartsWith(<<"-", " ">>) \/ StartsWith(<<"*", " ">>)
             THEN [type |-> "bulleted_list_item", skip |-> 2]
        ELSE IF digits >= 1 /\ Len(line) >= digits + 2
                /\ SubSeq(line, digits + 1, digits + 2) = <<".", " ">>
             THEN [type |-> "numbered_list_item", skip |-> digits + 2]
        ELSE [type |-> "", skip |-> 0]

\* the remainder of a line after a marker of length skip
Remainder(line, skip) == SubSeq(line, skip + 1, Len(line))

\* in every document markdownToBlocks has returned for, every line with a
\* marker and a remainder among Remainders that the scanner reaches outside a
\* fence (no line up to it opens one) gives exactly one block after the
\* blocks of the lines before it: the block of the marker, its spans the
\* tokenized remainder
MarkedLinesYield(Covers(_)) ==
    \A c \in DOMAIN calls :
        Returned(c, "markdownToBlocks") =>
            LET lines == SplitLines(calls[c].input)
            IN  \A i \in 1..Len(lines) :
                    (/\ MarkerOf(lines[i]).type # ""
                     /\ Covers(Remainder(lines[i], MarkerOf(lines[i]).skip))
                     /\ \A k \in 1..i : ~(/\ Len(lines[k]) >= 3
                                         /\ SubSeq(lines[k], 1, 3) = <<Backtick, Backtick, Backtick>>))
                    => markdownToBlocks(JoinLines(SubSeq(lines, 1, i)))
                         = markdownToBlocks(JoinLines(SubSeq(lines, 1, i - 1)))
                           \o <<NotionBlock(MarkerOf(lines[i]).type,
                                            parseInlineFormatting(
                                                Remainder(lines[i], MarkerOf(lines[i]).skip)),
                                            None)>>

\* C16 as stated: outside a fence every line that starts with "#", "##" or
\* "###" and a space gives the heading of that level, every line that starts
\* with "-" or "*" and a space a bulleted_list_item, every line that starts
\* with digits and ". " a numbered_list_item, whatever the remainder of the
\* line, and none of them a paragraph.
C16_EveryRemainder ==
    LET Whatever(rest) == TRUE
    IN  MarkedLinesYield(Whatever)

\* C16, amended: the same for the lines whose remainder after the marker is
\* not empty and holds no line terminator.
C16_RemainderWithText ==
    LET WithText(rest) == rest # <<>> /\ \A k \in 1..Len(rest) : rest[k] \notin {"\n", "\r"}
    IN  MarkedLinesYield(WithText)

\* markdownToBlocks has returned for "## *b*" followed by "12. f": a
\* heading_2 whose span is the italic b, then a numbered_list_item
C16_Witness ==
    \E c \in DOMAIN calls :
        /\ Returned(c, "markdownToBlocks")
        /\ calls[c].input = <<"#", "#", " ", "*", "b", "*", "\n", "1", "2", ".", " ", "f">>
        /\ calls[c].result[1] =
               <<NotionBlock("heading_2",
                             <<[PlainSpan(<<"b">>) EXCEPT !.annotations.italic = TRUE]>>, None),
                 NotionBlock("numbered_list_item", <<PlainSpan(<<"f">>)>>, None)>>

\* richTextToMarkdown was called with spans and parseInlineFormatting has
\* returned for the string it gave
RoundTripDone ==
    /\ Len(calls) = 2
    /\ Returned(1, "richTextToMarkdown")
    /\ Returned(2, "parseInlineFormatting")

\* the span has no mark and no link
IsPlain(span) == span = PlainSpan(span.content)

\* C17 as stated: for every sequence of spans with at most one style each,
\* tokenizing what richTextToMarkdown gives for it reconstructs the spans:
\* the same texts, marks and link targets, in the same order.
C17_RoundTrip ==
    RoundTripDone => calls[2].result[1] = calls[1].input

\* C17, amended: the same for the sequences in which every text is not
\* empty and holds none of the delimiter characters, every link target is
\* not empty and holds no closing parenthesis, and no two neighbours are both
\* plain.
C17_RoundTripOfCleanSpans ==
    LET spans      == calls[1].input
        Clean(str) == str # <<>> /\ \A k \in 1..Len(str) :
                          str[k] \notin {"*", "~", Backtick, "[", "]"}
    IN  (/\ RoundTripDone
         /\ \A i \in 1..Len(spans) :
               /\ Clean(spans[i].content)
               /\ spans[i].link # None =>
                      /\ spans[i].link[1] # <<>>
                      /\ \A k \in 1..Len(spans[i].link[1]) : spans[i].link[1][k] # ")"
         /\ \A i \in 1..(Len(spans) - 1) : ~(IsPlain(spans[i]) /\ IsPlain(spans[i + 1])))
        => calls[2].result[1] = spans

\* the round trip is done for an italic span, a plain span and a span that is
\* bold and italic
C17_Witness ==
    /\ RoundTripDone
    /\ calls[1].input = <<StyledSpan(<<"a">>, "italic"), PlainSpan(<<"b">>),
                          StyledSpan(<<"a">>, "bold+italic")>>
    /\ calls[1].result[1] = <<"*", "a", "*", "b", "*", "*", "*", "a", "*", "*", "*">>
    /\ calls[2].result[1] = calls[1].input

\* the name of the date property when key is a date-shorthand key as the
\* claims read it, date:<name>:<start|end|is_datetime>, or None
ShorthandName(key) ==
    LET fields == { <<":", "s", "t", "a", "r", "t">>,
                    <<":", "e", "n", "d">>,
                    <<":", "i", "s", "_", "d", "a", "t", "e", "t", "i", "m", "e">> }
        fits   == { f \in fields :
                      /\ Len(key) > 5 + Len(f)
                      /\ SubSeq(key, 1, 5) = <<"d", "a", "t", "e", ":">>
                      /\ SubSeq(key, Len(key) - Len(f) + 1, Len(key)) = f }
    IN  IF fits = {} THEN None
        ELSE Some(SubSeq(key, 6, Len(key) - Len(CHOOSE f \in fits : TRUE)))

\* C18: the keys of what buildProperties returns are the keys of the input
\* that are no date-shorthand keys and whose value is neither null nor
\* undefined, and one key per date-shorthand group, its name; no key stands
\* twice, and the entry of a group is a date.
C18_KeySet ==
    \A c \in DOMAIN calls :
        Returned(c, "buildProperties") =>
            LET flat   == calls[c].input
                result == calls[c].result[1]
                kept   == { flat[i].key : i \in { k \in 1..Len(flat) :
                                /\ ShorthandName(flat[k].key) = None
                                /\ flat[k].value.t \notin {"null", "undefined"} } }
                groups == { ShorthandName(flat[i].key)[1] : i \in { k \in 1..Len(flat) :
                                ShorthandName(flat[k].key) # None } }
            IN  /\ { result[i].key : i \in 1..Len(result) } = kept \cup groups
                /\ \A i, j \in 1..Len(result) : result[i].key = result[j].key => i = j
                /\ \A i \in 1..Len(result) : result[i].key \in groups => result[i].value.kind = "date"

\* the property the claim gives for a string, a number, a boolean or an array
MappedValue(value) ==
    CASE value.t = "array" ->
             PMultiSelect([i \in 1..Len(value.a) |->
                              IF value.a[i].t = "string" THEN value.a[i].s
                              ELSE NatToChars(value.a[i].n)])
      [] value.t = "number" -> PNumber(value.n)
      [] value.t = "boolean" -> PCheckbox(value.b)
      [] OTHER -> PRichText(value.s)

\* C19: for a flat map of strings, numbers, booleans and arrays without the
\* key "Name" and without a key that starts with "date:", buildProperties
\* returns one entry per entry of the input, under the same key: multi_select
\* with one option per element in their order for an array, number for a
\* number, checkbox for a boolean, rich_text with the string as its one span
\* for a string.
C19_OneEntryPerInput ==
    \A c \in DOMAIN calls :
        (/\ Returned(c, "buildProperties")
         /\ \A i \in 1..Len(calls[c].input) :
               /\ calls[c].input[i].value.t \in {"string", "number", "boolean", "array"}
               /\ calls[c].input[i].key # <<"N", "a", "m", "e">>
               /\ ~(/\ Len(calls[c].input[i].key) >= 5
                    /\ SubSeq(calls[c].input[i].key, 1, 5) = <<"d", "a", "t", "e", ":">>))
        => /\ Len(calls[c].result[1]) = Len(calls[c].input)
           /\ \A i \in 1..Len(calls[c].input) :
                 \E j \in 1..Len(calls[c].result[1]) :
                     /\ calls[c].result[1][j].key = calls[c].input[i].key
                     /\ calls[c].result[1][j].value = MappedValue(calls[c].input[i].value)

\* buildProperties has returned for { Tags: ["a", 7], Done: true, Note: "x" }
C19_Witness ==
    \E c \in DOMAIN calls :
        /\ Returned(c, "buildProperties")
        /\ Len(calls[c].input) = 3
        /\ calls[c].input[1].value.t = "array"
        /\ calls[c].input[2].value.t = "boolean"
        /\ calls[c].input[3].value.t = "string"
        /\ calls[c].input[3].key # <<"N", "a", "m", "e">>
        /\ calls[c].result[1] =
               <<[key |-> calls[c].input[1].key,
                  value |-> PMultiSelect(<< <<"a">>, <<"7">> >>)],
                 [key |-> calls[c].input[2].key, value |-> PCheckbox(TRUE)],
                 [key |-> calls[c].input[3].key, value |-> PRichText(<<"x">>)]>>

\* the characters of s that are no dashes
Undashed(s) ==
    LET NotDash(ch) == ch # "-"
    IN  SelectSeq(s, NotDash)

\* s with the whitespace around it taken off
Stripped(s) ==
    LET inner == { i \in 1..Len(s) : s[i] \notin {" ", "\t", "\n", "\r"} }
    IN  IF inner = {} THEN <<>>
        ELSE SubSeq(s, Least(inner), CHOOSE i \in inner : \A j \in inner : j <= i)

\* s is made of hex characters and dashes, 32 hex characters in all
Has32Hex(s) ==
    /\ \A i \in 1..Len(s) : s[i] \in HexChars \cup {"-"}
    /\ Len(Undashed(s)) = 32

\* the lowercase dashed 8-4-4-4-12 form of the 32 hex characters of s
Canonical(s) == Dashed(ToLowerCase(Undashed(s)), {8, 12, 16, 20})

\* C20 as stated: for every input that, whitespace around it aside, consists
\* of 32 hex characters with or without dashes among them, extractNotionId
\* returns the lowercase dashed 8-4-4-4-12 form of the 32 characters.
C20_AnyDashes ==
    \A c \in DOMAIN calls :
        (Returned(c, "extractNotionId") /\ Has32Hex(Stripped(calls[c].input)))
        => calls[c].result[1] = Canonical(Stripped(calls[c].input))

\* C20, amended: extractNotionId returns that form when the input, whitespace
\* around it aside, is 32 hex characters without a dash or has its four
\* dashes after the characters 8, 12, 16 and 20; when dashes stand between
\* the 32 characters in any other way it returns the input trimmed.
C20_NoDashesOrCanonical ==
    \A c \in DOMAIN calls :
        (Returned(c, "extractNotionId") /\ Has32Hex(Stripped(calls[c].input))) =>
            LET t == Stripped(calls[c].input)
            IN  IF t = Undashed(t) \/ t = Dashed(Undashed(t), {8, 12, 16, 20})
                THEN calls[c].result[1] = Canonical(t)
                ELSE (t[1] # "-" /\ t[Len(t)] # "-") => calls[c].result[1] = t

\* extractNotionId has returned the canonical form for an identifier in
\* capitals with dashes and whitespace around it
C20_Witness ==
    \E c \in DOMAIN calls :
        /\ Returned(c, "extractNotionId")
        /\ calls[c].input = <<" ", " ">> \o Dashed(<<"A", "B", "C", "1", "2", "3", "D", "E", "F", "4", "5", "6", "7", "8", "9", "0", "A", "B", "C", "D", "E", "F", "1", "2", "3", "4", "5", "6", "7", "8", "9", "0">>, {8, 12, 16, 20}) \o <<" ", " ">>
        /\ calls[c].result[1] = <<"a", "b", "c", "1", "2", "3", "d", "e", "-", "f", "4", "5", "6", "-", "7", "8", "9", "0", "-", "a", "b", "c", "d", "-", "e", "f", "1", "2", "3", "4", "5", "6", "7", "8", "9", "0">>

\* none of the patterns of extractNotionId is found in t: it is no dashed
\* identifier and no 32 hex characters, holds no run of 32 hex characters,
\* and is no URL whose path ends with an identifier
NoPattern(t) ==
    /\ ~UUID_RE(t)
    /\ ~HEX32_RE(t)
    /\ HexMatch(t) = None
    /\ Pathname(t) = None \/ PathId(Pathname(t)[1]) = None

\* C21: extractNotionId returns a string for every input, returns for what it
\* returned the same string again, and returns the input with the whitespace
\* around it taken off when it finds none of its patterns in it.
C21_IdempotentAndTotal ==
    \A c \in DOMAIN calls :
        Returned(c, "extractNotionId") =>
            /\ calls[c].result # None
            /\ calls[c].result[1] \in Seq(STRING)
            /\ (c < Len(calls) /\ Returned(c + 1, "extractNotionId"))
                   => /\ calls[c + 1].input = calls[c].result[1]
                      /\ calls[c + 1].result = calls[c].result
            /\ NoPattern(Stripped(calls[c].input))
                   => calls[c].result[1] = Stripped(calls[c].input)

\* extractNotionId has been applied to what it returned, for a URL with an
\* identifier and for a padded text without one
C21_Witness ==
    /\ Len(calls) = 2
    /\ Returned(1, "extractNotionId")
    /\ Returned(2, "extractNotionId")
    /\ \/ /\ HasAt(calls[1].input, 1, <<"h", "t", "t", "p", "s", ":", "/", "/">>)
          /\ calls[1].result[1] # calls[1].input
          /\ UUID_RE(calls[2].result[1])
       \/ /\ NoPattern(Stripped(calls[1].input))
          /\ calls[1].input # Stripped(calls[1].input)
          /\ calls[2].result[1] = Stripped(calls[1].input)

(***************************************************************************)
(* Claims about overlapping serializer calls (checked under SpecOverlap)   *)
(***************************************************************************)

\* what blocksToMarkdown(blocks, options, indent) resolves with when nothing
\* else runs, fetchChildren answering from st: the loop from block i on with
\* the accumulators acc
RECURSIVE RunAlone(_, _, _, _, _, _)
RunAlone(blocks, i, options, indent, st, acc) ==
    IF i > Len(blocks) THEN JoinLines(acc.lines)
    ELSE LET block   == blocks[i]
             pushed  == PushLine(acc, block, indent, blockToMarkdown(block, indent))
             childMd == IF block.has_children /\ HasFetchChildren(options)
                        THEN RunAlone(ChildrenOf(st, block.id), 1, options, indent + 1,
                                      st, NoLines)
                        ELSE <<>>
         IN  RunAlone(blocks, i + 1, options, indent, st,
                      [pushed EXCEPT !.lines = IF childMd # <<>> THEN Append(@, childMd)
                                               ELSE @])

\* C22: whatever the interleaving of two invocations of blocksToMarkdown,
\* each resolves with the string it resolves with when it runs alone on the
\* same blocks with the same answers of fetchChildren.
C22_AsIfAlone ==
    \A c \in DOMAIN calls :
        calls[c].pc = "done"
            => calls[c].result = Some(RunAlone(calls[c].blocks, 1, calls[c].options,
                                               calls[c].indent, store, NoLines))

\* the second invocation has resolved with the table of its tree, header
\* separator included, while the first, past a table row of its own, awaits
\* the children of that row
C22_Witness ==
    /\ Len(calls) = 2
    /\ calls[1].pc = "fetch"
    /\ ~calls[1].stack[Len(calls[1].stack)].isFirstTableRow
    /\ calls[2].pc = "done"
    /\ calls[2].indent = 1
    /\ \E i \in 1..Len(calls[2].events) : calls[2].events[i].id = 32
    /\ calls[2].result = Some(RunAlone(calls[2].blocks, 1, calls[2].options, 1, store, NoLines))

\* the lengths n >= 1 of a text at q that holds no stop and is followed by
\* close
TextLengths(line, q, stop, close) ==
    { n \in 1..(Len(line) - q + 1) :
          /\ \A k \in q..(q + n - 1) : line[k] # stop
          /\ HasAt(line, q + n, close) }

\* the token of the kind that starts at p, if there is one: open, a text
\* without stop, close
Token(line, p, kind, open, stop, close) ==
    LET ns == IF HasAt(line, p, open) THEN TextLengths(line, p + Len(open), stop, close)
              ELSE {}
    IN  IF ns = {} THEN None
        ELSE LET n == CHOOSE n \in ns : TRUE
             IN  Some([kind |-> kind, text |-> SubSeq(line, p + Len(open), p + Len(open) + n - 1),
                       end |-> p + Len(open) + n + Len(close)])

\* the tokens that start at p, in the order of precedence: hyperlink,
\* inline code, bold and italic, bold, italic, strikethrough
TokensAt(line, p) ==
    LET text   == Token(line, p, "link", <<"[">>, "]", <<"]", "(">>)
        target == IF text = None THEN None
                  ELSE Token(line, text[1].end - 1, "target", <<"(">>, ")", <<")">>)
        found  == << IF target = None THEN None
                     ELSE Some([text[1] EXCEPT !.end = target[1].end] @@ [url |-> target[1].text]),
                     Token(line, p, "code", <<Backtick>>, Backtick, <<Backtick>>),
                     Token(line, p, "bold+italic", <<"*", "*", "*">>, "*", <<"*", "*", "*">>),
                     Token(line, p, "bold", <<"*", "*">>, "*", <<"*", "*">>),
                     Token(line, p, "italic", <<"*">>, "*", <<"*">>),
                     Token(line, p, "strikethrough", <<"~", "~">>, "~", <<"~", "~">>) >>
        IsSome(t) == t # None
    IN  SelectSeq(found, IsSome)

\* the span of a token: its inner text as it stands, with the style of its
\* kind
TokenSpan(t) ==
    IF t.kind = "link" THEN [PlainSpan(t.text) EXCEPT !.link = Some(t.url)]
    ELSE StyledSpan(t.text, t.kind)

\* the spans of the line from p on, scanned once from left to right: the
\* token that starts earliest, the first in precedence of those that start
\* there, the text before it as a plain span, then the rest after the token
RECURSIVE Scanned(_, _)
Scanned(line, p) ==
    LET starts == { q \in p..Len(line) : TokensAt(line, q) # <<>> }
    IN  IF p > Len(line) THEN <<>>
        ELSE IF starts = {} THEN <<PlainSpan(SubSeq(line, p, Len(line)))>>
        ELSE LET q == Least(starts)
                 t == TokensAt(line, q)[1][1]
             IN  (IF q > p THEN <<PlainSpan(SubSeq(line, p, q - 1))>> ELSE <<>>)
                 \o <<TokenSpan(t)>> \o Scanned(line, t.end)

Delimiter(span) ==
    IF span.annotations.code THEN <<Backtick>>
    ELSE IF span.annotations.bold /\ span.annotations.italic THEN <<"*", "*", "*">>
    ELSE IF span.annotations.bold THEN <<"*", "*">>
    ELSE IF span.annotations.italic THEN <<"*">>
    ELSE IF span.annotations.strikethrough THEN <<"~", "~">>
    ELSE <<>>

\* the spans with the delimiters of their tokens, and the targets of the
\* links, put back around their texts
RECURSIVE Restored(_)
Restored(spans) ==
    IF spans = <<>> THEN <<>>
    ELSE LET span == Head(spans)
         IN  (IF span.link # None
              THEN <<"[">> \o span.content \o <<"]", "(">> \o span.link[1] \o <<")">>
              ELSE Delimiter(span) \o span.content \o Delimiter(span))
             \o Restored(Tail(spans))

\* C27: the spans of the tokenizer keep every character: their texts in
\* order are the line without the delimiters of the recognized tokens and
\* without the targets of the links, so that the line comes back when these
\* are put back; an empty line yields no span, and a line without a
\* recognized token yields one plain span that holds the whole line.
C27_CharacterPreserving ==
    \A c \in DOMAIN calls :
        Returned(c, "parseInlineFormatting") =>
            LET line  == calls[c].input
                spans == calls[c].result[1]
            IN  /\ Restored(spans) = line
                /\ \A i \in 1..Len(spans) : spans[i].content # <<>>
                /\ line = <<>> => spans = <<>>
                /\ (line # <<>> /\ \A i \in 1..Len(spans) : IsPlain(spans[i]))
                       => spans = <<PlainSpan(line)>>

\* parseInlineFormatting has returned for a line with text before and after
\* a link: three spans, the target of the link not among their texts
C27_Witness ==
    \E c \in DOMAIN calls :
        /\ Returned(c, "parseInlineFormatting")
        /\ calls[c].input = <<"a", "[", "a", "]", "(", "u", ")", "a">>
        /\ calls[c].result[1] = <<PlainSpan(<<"a">>), StyledSpan(<<"a">>, "link"),
                                  PlainSpan(<<"a">>)>>

(***************************************************************************)
(* Claims about the loop of markdownToBlocks (checked under SpecScanner)   *)
(***************************************************************************)

\* a line that is empty or holds whitespace only
Blank(line) == \A k \in 1..Len(line) : line[k] \in {" ", "\t", "\r"}

\* what holds of a call of markdownToBlocks at every moment: i is at most
\* one past the closing fence that the input lacks, the blocks emitted are
\* no more than the lines consumed, and when the call has returned, no more
\* than the lines of the input, and none for a document of blank lines
WithinLines(call) ==
    /\ call.i <= Len(call.lines) + 2
    /\ Len(call.blocks) <= call.i - 1
    /\ call.pc = "done" =>
           /\ call.i > Len(call.lines)
           /\ call.result = Some(call.blocks)
           /\ Len(call.blocks) <= Len(call.lines)
           /\ (\A k \in 1..Len(call.lines) : Blank(call.lines[k])) => call.blocks = <<>>

\* what holds of every step of a call: a turn of the loop consumes at least
\* one line and emits at most one block, after those emitted before, and
\* none at a blank line; the one step that is no turn is the return, and
\* after it the call does nothing
OneTurn(before, after) ==
    after # before =>
        /\ before.pc = "scan"
        /\ after.pc = "scan" =>
               /\ after.i > before.i
               /\ Len(after.blocks) <= Len(before.blocks) + 1
               /\ SubSeq(after.blocks, 1, Len(before.blocks)) = before.blocks
               /\ Blank(before.lines[before.i]) => after.blocks = before.blocks
        /\ after.pc # "scan" => after.pc = "done" /\ after.blocks = before.blocks

\* C28: markdownToBlocks terminates, and the blocks it emits are at most as
\* many as the lines of its input: each turn of the scanner consumes at
\* least one line, so that the turns are at most as many as the lines plus
\* one and the call returns after them, and emits at most one block,
\* appended to those of the lines before; blank lines emit nothing, so that
\* an empty or blank document gives no block.
C28_AtMostOneBlockPerLine ==
    /\ [](\A c \in DOMAIN calls : WithinLines(calls[c]))
    /\ [][\A c \in DOMAIN calls : OneTurn(calls[c], calls'[c])]_vars

\* markdownToBlocks has returned two blocks for four lines: a fence of three
\* lines that holds a blank line, then a heading
C28_Witness ==
    \E c \in DOMAIN calls :
        /\ calls[c].pc = "done"
        /\ calls[c].lines = << <<Backtick, Backtick, Backtick>>, <<>>,
                               <<Backtick, Backtick, Backtick>>, <<"#", " ", "h">> >>
        /\ Len(calls[c].result[1]) = 2
        /\ calls[c].result[1][2].type = "heading_1"

\* C30: parsing what the serializer renders for the blocks of a document
\* gives the blocks of the document again: the same types, languages, and
\* span texts and styles in the same order, also for a fenced code block
\* written without a language.
C30_RenderThenParse ==
    (/\ Len(calls) = 3
     /\ Returned(1, "markdownToBlocks")
     /\ Returned(2, "blocksToMarkdownSync")
     /\ Returned(3, "markdownToBlocks"))
    => calls[3].result = calls[1].result

====
